---- MODULE Spec2Model ----
(***************************************************************************)
(* A model of the filbridge backend and SDK core:                          *)
(*   - the credit ledger (CreditService over the sqlite Database),         *)
(*   - the SDK funding flow (SynapseStorageClient.fundCredits and the      *)
(*     POST /fund-credits route),                                          *)
(*   - the settlement poll (OnlySwapsService.waitForExecution),            *)
(*   - the storage session manager (SynapseService.withConnection).        *)
(* Every awaited call is one step: the code between two awaits runs        *)
(* atomically on the single JavaScript thread, and anything may run        *)
(* between an await and its continuation.                                  *)
(***************************************************************************)
EXTENDS Integers, Sequences, FiniteSets, TLC

VARIABLES
    credits,        \* user_credits table: address -> row
    transactions,   \* credit_transactions table, in insertion order
    ops,            \* the CreditService calls in flight, one record per request slot
    wallClock,      \* Date.now() as seen by the database layer
    poll,           \* one waitForExecution call: its options, locals and position
    source,         \* what the routers would report for the request right now
    now,            \* Date.now() as seen by waitForExecution
    pollLog,        \* what the call has done so far (checks, sleeps, progress calls)
    funds,          \* the SDK's fundCredits calls, one per request slot
    mgr,            \* the SynapseService instance: its private fields
    tasks,          \* the async calls on the SynapseService, each at an await
    env,            \* the clock, the interval timers and the SDK sessions
    userFiles,      \* user_files table: file id -> row
    requests,       \* the POST /initiate-storage requests, one per request slot
    storage,        \* the uploadFile calls made on the storage network, in order
    reads,          \* the database's read side: its row order and the last response
    route,          \* the last call of a route discovery function and its result
    swaps           \* the OnlySwapsService.swap calls, one per invocation

ledgerVars == <<credits, transactions, ops, wallClock>>
pollVars == <<poll, source, now, pollLog>>

\* what a step of one component leaves alone
fundVars == <<funds>>
connVars == <<mgr, tasks, env>>
uploadVars == <<userFiles, requests, storage>>
notLedger == <<swaps, pollVars, fundVars, connVars, uploadVars, reads, route>>
notPoll == <<swaps, ledgerVars, fundVars, connVars, uploadVars, reads, route>>
notFund == <<swaps, pollVars, wallClock, connVars, uploadVars, reads, route>>
notConn == <<swaps, ledgerVars, pollVars, fundVars, uploadVars, reads, route>>
notUpload == <<swaps, wallClock, pollVars, fundVars, connVars, reads, route>>
notReads ==
    <<swaps, credits, transactions, ops, pollVars, fundVars, connVars, uploadVars, route>>
notRoute == <<swaps, ledgerVars, pollVars, fundVars, connVars, uploadVars, reads>>
notSwap == <<ledgerVars, pollVars, fundVars, connVars, uploadVars, reads, route>>

----------------------------------------------------------------------------
(* Bounds of the ledger model *)

\* number of request slots (each runs one addCredits or deductCredits)
MaxOps == 3
\* amounts are multiples of AmountStep, so that balances run over several digits
AmountStep == 6

Addresses == {"0xa", "0xb"}
Slots == 1..MaxOps
Amounts == {AmountStep, 2 * AmountStep}
BridgeIds == {"r1"}
\* uuidv4() gives every upload request its own file id
FileIdOf(p) == p

----------------------------------------------------------------------------
(* bigint <-> decimal string, as stored in the TEXT columns *)

RECURSIVE DigitsOf(_)
DigitsOf(n) == IF n < 10 THEN <<n>> ELSE DigitsOf(n \div 10) \o <<n % 10>>

\* bigint.toString(): sign and decimal digits, most significant first
toString(n) == [neg |-> n < 0, digits |-> DigitsOf(IF n < 0 THEN -n ELSE n)]

RECURSIVE ValueOf(_)
ValueOf(ds) ==
    IF Len(ds) = 0 THEN 0
    ELSE 10 * ValueOf(SubSeq(ds, 1, Len(ds) - 1)) + ds[Len(ds)]

\* BigInt(string)
BigInt(s) == IF s.neg THEN -ValueOf(s.digits) ELSE ValueOf(s.digits)

----------------------------------------------------------------------------
(* Database *)

NoRow == [present |-> FALSE, balance |-> toString(0)]

\* Database.getUserCredit: the row, or null
getUserCredit(userAddress) == credits[userAddress]

\* Database.createUserCredit: INSERT; user_address is the PRIMARY KEY, so the
\* insert is rejected when a row exists
createUserCreditRejected(userAddress) == credits[userAddress].present

createUserCredit(userAddress, balance) ==
    [credits EXCEPT ![userAddress] = [present |-> TRUE, balance |-> balance]]

\* (mutation) the UPDATE has no WHERE clause
updateUserCreditBalance_AllRows(userAddress, newBalance) ==
    [a \in DOMAIN credits |->
        IF credits[a].present THEN [credits[a] EXCEPT !.balance = newBalance]
        ELSE credits[a]]

\* Database.updateUserCreditBalance: UPDATE ... WHERE user_address = ?
\* (changes nothing when there is no row)
updateUserCreditBalance(userAddress, newBalance) ==
    IF credits[userAddress].present
    THEN [credits EXCEPT ![userAddress].balance = newBalance]
    ELSE credits

\* (mutation) INSERT OR REPLACE under one id per address and type: an earlier
\* record of the same address and type is overwritten
createCreditTransaction_Replacing(userAddress, type, amount, fileId, bridgeRequestId) ==
    Append(SelectSeq(transactions,
                     LAMBDA tx : ~(tx.user_address = userAddress /\ tx.type = type)),
           [id |-> Len(transactions) + 1,
            user_address |-> userAddress,
            type |-> type,
            amount |-> toString(amount),
            file_id |-> fileId,
            bridge_request_id |-> bridgeRequestId,
            created_at |-> wallClock])

\* Database.createCreditTransaction: INSERT with a fresh id and created_at = now
createCreditTransaction(userAddress, type, amount, fileId, bridgeRequestId) ==
    Append(transactions,
           [id |-> Len(transactions) + 1,
            user_address |-> userAddress,
            type |-> type,
            amount |-> toString(amount),
            file_id |-> fileId,
            bridge_request_id |-> bridgeRequestId,
            created_at |-> wallClock])

\* CreditService.getBalance: credit ? BigInt(credit.balance) : 0n
getBalance(userAddress) ==
    LET credit == getUserCredit(userAddress)
    IN  IF credit.present THEN BigInt(credit.balance) ELSE 0

----------------------------------------------------------------------------
(* CreditService: one request slot *)

IdleOp ==
    [pc |-> "idle", kind |-> "none", userAddress |-> "0xa", amount |-> 0,
     fileId |-> 0, bridgeRequestId |-> "null", currentBalance |-> 0, newBalance |-> 0, existing |-> FALSE,
     outcome |-> "none", reportedBalance |-> 0, requiredAmount |-> 0]

\* the call has settled: its locals are gone, its arguments and outcome are kept
Returned(op, outcome) ==
    [op EXCEPT !.pc = "done", !.outcome = outcome,
               !.currentBalance = 0, !.newBalance = 0, !.existing = FALSE]

\* slots are taken in order
MayStart(p) == ops[p].pc = "idle" /\ (IF p = 1 THEN TRUE ELSE ops[p - 1].pc # "idle")

NoOpInFlight == \A q \in Slots : ops[q].pc \in {"idle", "done"}

\* addCredits is called: the balance read is issued
AddCredits(p, userAddress, amount, bridgeRequestId) ==
    /\ MayStart(p)
    /\ ops' = [ops EXCEPT ![p] = [IdleOp EXCEPT !.pc = "add_getBalance",
                                               !.kind = "deposit",
                                               !.userAddress = userAddress,
                                               !.amount = amount,
                                               !.bridgeRequestId = bridgeRequestId]]
    /\ UNCHANGED <<credits, transactions, wallClock>>
    /\ UNCHANGED notLedger

\* const currentBalance = await this.getBalance(userAddress);
\* const newBalance = currentBalance + amount;
AddGetBalance(p) ==
    /\ ops[p].pc = "add_getBalance"
    /\ LET currentBalance == getBalance(ops[p].userAddress)
       IN  ops' = [ops EXCEPT ![p].pc = "add_getUserCredit",
                              ![p].currentBalance = currentBalance,
                              ![p].newBalance = currentBalance + ops[p].amount]
    /\ UNCHANGED <<credits, transactions, wallClock>>
    /\ UNCHANGED notLedger

\* const existing = await this.db.getUserCredit(userAddress);
AddGetUserCredit(p) ==
    /\ ops[p].pc = "add_getUserCredit"
    /\ ops' = [ops EXCEPT ![p].pc = "add_write",
                          ![p].existing = getUserCredit(ops[p].userAddress).present]
    /\ UNCHANGED <<credits, transactions, wallClock>>
    /\ UNCHANGED notLedger

\* if (existing) updateUserCreditBalance(...) else createUserCredit(...)
AddWrite(p) ==
    /\ ops[p].pc = "add_write"
    /\ IF ops[p].existing
       THEN /\ credits' = updateUserCreditBalance(ops[p].userAddress,
                                                  toString(ops[p].newBalance))
            /\ ops' = [ops EXCEPT ![p].pc = "add_log"]
       ELSE IF createUserCreditRejected(ops[p].userAddress)
            THEN /\ credits' = credits
                 /\ ops' = [ops EXCEPT ![p] = Returned(ops[p], "threw")]
            ELSE /\ credits' = createUserCredit(ops[p].userAddress,
                                                toString(ops[p].newBalance))
                 /\ ops' = [ops EXCEPT ![p].pc = "add_log"]
    /\ UNCHANGED <<transactions, wallClock>>
    /\ UNCHANGED notLedger

\* await this.db.createCreditTransaction({type: 'deposit', ...})
AddLog(p) ==
    /\ ops[p].pc = "add_log"
    /\ transactions' = createCreditTransaction(ops[p].userAddress, "deposit",
                                               ops[p].amount, 0, ops[p].bridgeRequestId)
    /\ ops' = [ops EXCEPT ![p] = Returned(ops[p], "ok")]
    /\ UNCHANGED <<credits, wallClock>>
    /\ UNCHANGED notLedger

\* deductCredits is called: the balance read is issued
DeductCredits(p, userAddress, cost, fileId) ==
    /\ MayStart(p)
    /\ ops' = [ops EXCEPT ![p] = [IdleOp EXCEPT !.pc = "deduct_getBalance",
                                               !.kind = "deduct",
                                               !.userAddress = userAddress,
                                               !.amount = cost,
                                               !.fileId = fileId]]
    /\ UNCHANGED <<credits, transactions, wallClock>>
    /\ UNCHANGED notLedger

\* (mutation) the balance check is missing
InsufficientCredits_Unchecked(currentBalance, cost) == FALSE

\* if (currentBalance < cost)
InsufficientCredits(currentBalance, cost) == currentBalance < cost

\* (mutation) the cost is not subtracted
BalanceAfterDeduct_Unchanged(currentBalance, cost) == currentBalance

\* const newBalance = currentBalance - cost;
BalanceAfterDeduct(currentBalance, cost) == currentBalance - cost

\* (mutation) an insufficient balance is clamped to zero instead of left alone
DeductGetBalance_Clamping(p) ==
    /\ ops[p].pc = "deduct_getBalance"
    /\ LET currentBalance == getBalance(ops[p].userAddress)
       IN  IF currentBalance < ops[p].amount
           THEN /\ ops' = [ops EXCEPT ![p] =
                            [Returned(ops[p], "insufficient")
                                EXCEPT !.reportedBalance = currentBalance,
                                       !.requiredAmount = ops[p].amount]]
                /\ credits' = updateUserCreditBalance(ops[p].userAddress, toString(0))
           ELSE /\ ops' = [ops EXCEPT ![p].pc = "deduct_update",
                                      ![p].currentBalance = currentBalance,
                                      ![p].newBalance = currentBalance - ops[p].amount]
                /\ credits' = credits
    /\ UNCHANGED <<transactions, wallClock>>
    /\ UNCHANGED notLedger

\* const currentBalance = await this.getBalance(userAddress);
\* the check, and either the failure value or the issue of the UPDATE
DeductGetBalance(p) ==
    /\ ops[p].pc = "deduct_getBalance"
    /\ LET currentBalance == getBalance(ops[p].userAddress)
       IN  IF InsufficientCredits(currentBalance, ops[p].amount)
           THEN ops' = [ops EXCEPT ![p] =
                            [Returned(ops[p], "insufficient")
                                EXCEPT !.reportedBalance = currentBalance,
                                       !.requiredAmount = ops[p].amount]]
           ELSE ops' = [ops EXCEPT ![p].pc = "deduct_update",
                                   ![p].currentBalance = currentBalance,
                                   ![p].newBalance =
                                       BalanceAfterDeduct(currentBalance, ops[p].amount)]
    /\ UNCHANGED <<credits, transactions, wallClock>>
    /\ UNCHANGED notLedger

\* await this.db.updateUserCreditBalance(userAddress, newBalance.toString());
DeductUpdate(p) ==
    /\ ops[p].pc = "deduct_update"
    /\ credits' = updateUserCreditBalance(ops[p].userAddress, toString(ops[p].newBalance))
    /\ ops' = [ops EXCEPT ![p].pc = "deduct_log"]
    /\ UNCHANGED <<transactions, wallClock>>
    /\ UNCHANGED notLedger

\* await this.db.createCreditTransaction({type: 'deduct', ...}); return {success: true}
DeductLog(p) ==
    /\ ops[p].pc = "deduct_log"
    /\ transactions' = createCreditTransaction(ops[p].userAddress, "deduct",
                                               ops[p].amount, ops[p].fileId, "null")
    /\ ops' = [ops EXCEPT ![p] = Returned(ops[p], "ok")]
    /\ UNCHANGED <<credits, wallClock>>
    /\ UNCHANGED notLedger

\* the statement the call in slot p has issued is a write (INSERT or UPDATE) and
\* sqlite reports an error for it (SQLITE_BUSY, SQLITE_FULL, an I/O error): the
\* Database method rejects, and addCredits or deductCredits, which have no
\* try/catch and no transaction, reject with that error
StoreWriteFails(p) ==
    /\ ops[p].pc \in {"add_write", "add_log", "deduct_update", "deduct_log"}
    /\ ops' = [ops EXCEPT ![p] = Returned(ops[p], "threw")]
    /\ UNCHANGED <<credits, transactions, wallClock>>
    /\ UNCHANGED notLedger

----------------------------------------------------------------------------
(* OnlySwapsService.waitForExecution *)

\* the request the call waits for
PolledRequestId == "r1"
\* options.timeoutMs and options.intervalMs handed to the call
Timeouts == {100, 200}
Intervals == {50, 80}
\* how long a round of status fetches may take, and how late a timer may fire
MaxLatency == 30
Latencies == {0, MaxLatency}
\* a fetch resolves, or rejects with an error whose message may contain 'timeout'
FetchOutcomes == {"ok", "error", "error_mentions_timeout"}

IdlePoll ==
    [pc |-> "idle", requestId |-> "none", timeoutMs |-> 0, intervalMs |-> 0, dest |-> FALSE,
     onProgress |-> FALSE,
     startTime |-> 0, elapsed |-> 0,
     result |-> "none", executed |-> FALSE, fulfilled |-> FALSE, receipt |-> "none",
     error |-> "none"]

NoCheck ==
    [kind |-> "none", ok |-> FALSE, executed |-> FALSE, fulfilled |-> FALSE,
     dest |-> "none", destFulfilled |-> FALSE]

InitPoll ==
    /\ poll = IdlePoll
    /\ source = [executed |-> FALSE, fulfilled |-> FALSE, destFulfilled |-> FALSE]
    /\ now = 0
    /\ pollLog = [lastCheck |-> NoCheck, checks |-> 0, sleeps |-> 0, tailDelay |-> 0,
                  reported |-> FALSE, fetchFailed |-> FALSE,
                  progressCalls |-> 0,
                  progress |-> [elapsed |-> 0, fulfilled |-> FALSE, executed |-> FALSE]]

\* the intent is executed by the committee, or fulfilled by a solver (seen by the
\* source router, by the destination router, or by both)
SourceAdvances ==
    /\ \E f \in {"executed", "fulfilled", "destFulfilled"} :
          /\ ~source[f]
          /\ source' = [source EXCEPT ![f] = TRUE]
    /\ UNCHANGED <<poll, now, pollLog>>
    /\ UNCHANGED notPoll

\* const startTime = Date.now(); the initial status fetches are issued
WaitForExecution(requestId, timeoutMs, intervalMs, dest, onProgress) ==
    /\ poll.pc = "idle"
    /\ poll' = [IdlePoll EXCEPT !.pc = "initial", !.requestId = requestId,
                                !.timeoutMs = timeoutMs,
                                !.intervalMs = intervalMs, !.dest = dest,
                                !.onProgress = onProgress,
                                !.startTime = now]
    /\ UNCHANGED <<source, now, pollLog>>
    /\ UNCHANGED notPoll

\* (mutation) only the committee's verification resolves the wait
ResolvedBy_ExecutedOnly(executed, fulfilled) == executed

\* if (params.executed || fulfillment.fulfilled)
ResolvedBy(executed, fulfilled) == executed \/ fulfilled

\* whether a round of status reads gets as far as awaiting fetchDestReceipt() with
\* a destination client configured: the primary fetches resolved and reported
\* nothing, and the round is not the final one of the timeout branch
DestConsulted(kind, primary) ==
    /\ kind # "final"
    /\ primary = "ok"
    /\ ~ResolvedBy(source.executed, source.fulfilled)
    /\ poll.dest

\* one round of status reads: Promise.all of the two primary fetches, then,
\* when they report nothing, the destination router's receipt if one is configured
\* (dest: "none" when it was not asked, else how its fetch settled)
CheckOf(kind, primary, destination) ==
    [kind |-> kind,
     ok |-> primary = "ok",
     executed |-> primary = "ok" /\ source.executed,
     fulfilled |-> primary = "ok" /\ source.fulfilled,
     dest |-> IF DestConsulted(kind, primary)
              THEN IF destination = "ok" THEN "ok" ELSE "error"
              ELSE "none",
     destFulfilled |-> /\ DestConsulted(kind, primary)
                       /\ destination = "ok"
                       /\ source.destFulfilled]

\* whether the round threw (a primary fetch rejected, or the destination fetch did)
CheckThrew(check, primary, destination) ==
    \/ primary # "ok"
    \/ check.dest = "error"

Logged(check, threw, delay) ==
    [pollLog EXCEPT !.lastCheck = check,
                    !.checks = @ + 1,
                    !.tailDelay = @ + delay,
                    !.reported = @ \/ check.executed \/ check.fulfilled
                                   \/ check.destFulfilled,
                    !.fetchFailed = @ \/ threw]

\* (mutation) the destination branch returns the primary fulfillment receipt
\* instead of the destination router's
Resolve_PrimaryReceipt(check) ==
    [poll EXCEPT !.pc = "resolved", !.result = "resolved",
                 !.executed = check.executed,
                 !.fulfilled = check.fulfilled,
                 !.receipt = "primary"]

\* return { params, fulfillment } resp. return { params, fulfillment: destReceipt }
Resolve(check) ==
    [poll EXCEPT !.pc = "resolved", !.result = "resolved",
                 !.executed = check.executed,
                 !.fulfilled = check.fulfilled \/ check.destFulfilled,
                 !.receipt = IF ResolvedBy(check.executed, check.fulfilled)
                             THEN "primary" ELSE "destination"]

\* (mutation) the initial check without its try/catch: a failed fetch fails the call
InitialCheck_Fatal(delay, primary, destination) ==
    /\ poll.pc = "initial"
    /\ now' = now + delay
    /\ LET check == CheckOf("initial", primary, destination)
           threw == CheckThrew(check, primary, destination)
       IN  /\ pollLog' = Logged(check, threw, delay)
           /\ IF threw
              THEN poll' = [poll EXCEPT !.pc = "failed", !.result = "threw",
                                        !.error = "fetch_error"]
              ELSE IF ResolvedBy(check.executed, check.fulfilled) \/ check.destFulfilled
                   THEN poll' = Resolve(check)
                   ELSE poll' = [poll EXCEPT !.pc = "loop"]
    /\ UNCHANGED source
    /\ UNCHANGED notPoll

\* the initial check: try { ... } catch { /* continue with polling */ }
InitialCheck(delay, primary, destination) ==
    /\ poll.pc = "initial"
    /\ now' = now + delay
    /\ LET check == CheckOf("initial", primary, destination)
           threw == CheckThrew(check, primary, destination)
       IN  /\ pollLog' = Logged(check, threw, delay)
           /\ IF check.ok /\ ResolvedBy(check.executed, check.fulfilled)
              THEN poll' = Resolve(check)
              ELSE IF check.destFulfilled
                   THEN poll' = Resolve(check)
                   ELSE poll' = [poll EXCEPT !.pc = "loop"]
    /\ UNCHANGED source
    /\ UNCHANGED notPoll

\* (mutation) the deadline is tested one interval late
PastDeadline_Late(elapsed, timeoutMs, intervalMs) == elapsed > timeoutMs + intervalMs

\* if (elapsed > timeoutMs)
PastDeadline(elapsed, timeoutMs, intervalMs) == elapsed > timeoutMs

\* while (true) { const elapsed = Date.now() - startTime; if (elapsed > timeoutMs) ...
\* the fetches of the final status, or of the tick, are issued
LoopTop ==
    /\ poll.pc = "loop"
    /\ LET elapsed == now - poll.startTime
       IN  IF PastDeadline(elapsed, poll.timeoutMs, poll.intervalMs)
           THEN /\ poll' = [poll EXCEPT !.pc = "final", !.elapsed = elapsed]
                /\ pollLog' = pollLog
           ELSE /\ poll' = [poll EXCEPT !.pc = "tick", !.elapsed = elapsed]
                /\ pollLog' = [pollLog EXCEPT !.tailDelay = 0]
    /\ UNCHANGED <<source, now>>
    /\ UNCHANGED notPoll

\* the final status fetch settles: the timeout error is thrown inside the try, and
\* the catch rethrows whatever error has 'timeout' in its message
FinalFetch(delay, primary) ==
    /\ poll.pc = "final"
    /\ now' = now + delay
    /\ pollLog' = Logged(CheckOf("final", primary, "ok"), primary # "ok", delay)
    /\ poll' = [poll EXCEPT !.pc = "failed",
                            !.result = "threw",
                            !.error = IF primary = "error_mentions_timeout"
                                      THEN "fetch_error" ELSE "timeout"]
    /\ UNCHANGED source
    /\ UNCHANGED notPoll

\* (mutation) a failed tick is fatal only once the deadline itself has passed
OutOfRetries_PastDeadline(elapsed, timeoutMs, intervalMs) == elapsed > timeoutMs

\* if (elapsed > timeoutMs - intervalMs) throw error;
OutOfRetries(elapsed, timeoutMs, intervalMs) == elapsed > timeoutMs - intervalMs

\* one tick: the fetches settle, onProgress is told, the wait resolves or goes to sleep
Tick(delay, primary, destination, onProgress) ==
    /\ poll.pc = "tick"
    /\ now' = now + delay
    /\ LET check == CheckOf("tick", primary, destination)
           threw == CheckThrew(check, primary, destination)
           logged == Logged(check, threw, delay)
       IN  /\ pollLog' = IF check.ok /\ onProgress
                         THEN [logged EXCEPT
                                 !.progressCalls = @ + 1,
                                 !.progress = [elapsed |-> poll.elapsed,
                                               fulfilled |-> check.fulfilled,
                                               executed |-> check.executed]]
                         ELSE logged
           /\ IF check.ok /\ ResolvedBy(check.executed, check.fulfilled)
              THEN poll' = Resolve(check)
              ELSE IF check.destFulfilled
                   THEN poll' = Resolve(check)
                   ELSE IF threw /\ OutOfRetries(poll.elapsed, poll.timeoutMs, poll.intervalMs)
                        THEN poll' = [poll EXCEPT !.pc = "failed", !.result = "threw",
                                                  !.error = "fetch_error"]
                        ELSE poll' = [poll EXCEPT !.pc = "sleep"]
    /\ UNCHANGED source
    /\ UNCHANGED notPoll

\* (mutation) the timer promise is not awaited: the loop goes round at once
Sleep_NotAwaited(late) ==
    /\ poll.pc = "sleep"
    /\ now' = now + late
    /\ poll' = [poll EXCEPT !.pc = "loop"]
    /\ pollLog' = [pollLog EXCEPT !.sleeps = @ + 1, !.tailDelay = @ + late]
    /\ UNCHANGED source
    /\ UNCHANGED notPoll

\* await new Promise((resolve) => setTimeout(resolve, intervalMs));
Sleep(late) ==
    /\ poll.pc = "sleep"
    /\ now' = now + poll.intervalMs + late
    /\ poll' = [poll EXCEPT !.pc = "loop"]
    /\ pollLog' = [pollLog EXCEPT !.sleeps = @ + 1, !.tailDelay = @ + late]
    /\ UNCHANGED source
    /\ UNCHANGED notPoll

PollStep ==
    \/ \E d \in Latencies, f \in FetchOutcomes, g \in FetchOutcomes : InitialCheck(d, f, g)
    \/ LoopTop
    \/ \E d \in Latencies, f \in FetchOutcomes : FinalFetch(d, f)
    \/ \E d \in Latencies, f \in FetchOutcomes, g \in FetchOutcomes :
          Tick(d, f, g, poll.onProgress)
    \/ \E late \in Latencies : Sleep(late)

PollNext ==
    \/ \E t \in Timeouts, i \in Intervals, dest \in BOOLEAN, onProgress \in BOOLEAN :
          WaitForExecution(PolledRequestId, t, i, dest, onProgress)
    \/ SourceAdvances
    \/ PollStep

----------------------------------------------------------------------------
(* SynapseStorageClient.fundCredits and POST /api/fund-credits *)

\* addresses as the SDK's callers write them
UserAddresses == {"0xA", "0xb"}

\* String.prototype.toLowerCase on the addresses in play
toLowerCase(str) == IF str = "0xA" THEN "0xa" ELSE str

\* bridging is skipped: const bridgeResult = { bridgeRequestId: '0x1234567890' }
SkippedBridgeRequestId == "0x1234567890"

IdleFund ==
    [pc |-> "idle", userAddress |-> "0xb", amount |-> toString(0),
     bridgeRequestId |-> "none", status |-> 0, newBalance |-> toString(0),
     result |-> "none"]

InitFund == funds = [p \in Slots |-> IdleFund]

\* fundCredits up to the POST: throws without an OnlySwaps service, takes the
\* hard-wired bridge result (bridgePayment is not called), sends the request
FundCredits(p, userAddress, amount, onlySwaps) ==
    /\ funds[p].pc = "idle"
    /\ IF ~onlySwaps
       THEN funds' = [funds EXCEPT ![p].pc = "done", ![p].result = "threw",
                                   ![p].userAddress = userAddress,
                                   ![p].amount = toString(amount)]
       ELSE funds' = [funds EXCEPT ![p].pc = "posted",
                                   ![p].userAddress = userAddress,
                                   ![p].amount = toString(amount),
                                   ![p].bridgeRequestId = SkippedBridgeRequestId]
    /\ UNCHANGED <<credits, transactions, ops>>
    /\ UNCHANGED notFund

\* the route has validated the body and calls
\* creditService.addCredits(userAddress.toLowerCase(), BigInt(amount), bridgeRequestId)
RouteAddCredits(p) ==
    /\ funds[p].pc = "posted"
    /\ AddCredits(p, toLowerCase(funds[p].userAddress), BigInt(funds[p].amount),
                  funds[p].bridgeRequestId)

\* addCredits has settled: the route reads the new balance and answers 200, or
\* answers 500 when addCredits threw; fundCredits returns or throws accordingly
RouteRespond(p) ==
    /\ funds[p].pc = "posted"
    /\ ops[p].pc = "done"
    /\ IF ops[p].outcome = "ok"
       THEN funds' = [funds EXCEPT
                        ![p].pc = "done", ![p].status = 200, ![p].result = "returned",
                        ![p].newBalance =
                            toString(getBalance(toLowerCase(funds[p].userAddress)))]
       ELSE funds' = [funds EXCEPT
                        ![p].pc = "done", ![p].status = 500, ![p].result = "threw"]
    /\ UNCHANGED <<credits, transactions, ops>>
    /\ UNCHANGED notFund

FundNext ==
    \E p \in Slots :
        \/ \E a \in UserAddresses, n \in Amounts, onlySwaps \in BOOLEAN :
              FundCredits(p, a, n, onlySwaps)
        \/ RouteAddCredits(p)
        \/ AddGetBalance(p)
        \/ AddGetUserCredit(p)
        \/ AddWrite(p)
        \/ AddLog(p)
        \/ RouteRespond(p)

----------------------------------------------------------------------------
(* SynapseService: the storage session manager *)

\* concurrent withConnection calls (uploadFile, downloadFile, getBalance, ...)
MaxCallers == 2
\* performHeartbeat invocations that may be suspended at the same time
MaxBeats == 2
\* sessions Synapse.create hands out before it only fails
MaxSessions == 2
\* instants after the start at which the clock is read
MaxTicks == 2

\* private readonly heartbeatInterval = 45000
HeartbeatInterval == 45000
\* private readonly forcedReconnectInterval = 60000
ForcedReconnectInterval == 60000
\* while (attempt < 5)
MaxConnectAttempts == 5

\* a number | null field holding null
Null == 0 - 1

\* Date.now() at the moments something can become due: the sums of heartbeat
\* intervals and forced-reconnect intervals, in order
Instants ==
    {a * HeartbeatInterval + b * ForcedReconnectInterval : a, b \in 0..MaxTicks}

\* the next instant after time t
NextInstant(t) ==
    LET later == {x \in Instants : x > t}
    IN  CHOOSE x \in later : \A y \in later : x <= y

Callers == {<<"caller", i>> : i \in 1..MaxCallers}
Beats == {<<"beat", i>> : i \in 1..MaxBeats}
Refresher == <<"refresh", 1>>
Initializer == <<"initialize", 1>>
TaskIds == Callers \cup Beats \cup {Refresher, Initializer}

\* an async call that is not running: pc is the continuation it will resume at,
\* wait the promise it awaits, own whether it created that promise (and clears
\* the field in its finally), got and val the settlement delivered to it
IdleTask ==
    [pc |-> "idle", wait |-> "none", own |-> FALSE, got |-> "none", val |-> 0,
     attempt |-> 0, calls |-> <<>>, result |-> "none", error |-> "none",
     thrownBy |-> 0]

InitConn ==
    /\ mgr = [synapse |-> 0, connectPromise |-> "null", connectValue |-> 0,
              resetPromise |-> "null", refreshPromise |-> "null",
              heartbeatTimer |-> 0, lastHeartbeat |-> Null, lastReconnect |-> Null,
              reconnectCount |-> 0, lastError |-> "null"]
    /\ tasks = [t \in TaskIds |-> IdleTask]
    /\ env = [sdk |-> "none", clock |-> 0, timers |-> {}, nextSession |-> 1,
              destroying |-> {},
              connect |-> [pc |-> "idle", attempt |-> 0, sleepMs |-> 0,
                           inFlight |-> 0]]

\* the three variables as one value, which the synchronous code transforms
Here == [mgr |-> mgr, tasks |-> tasks, env |-> env]

Commit(w) ==
    /\ mgr' = w.mgr
    /\ tasks' = w.tasks
    /\ env' = w.env

\* what an await of a promise in state p receives at once
Settled(p) ==
    IF p = "fulfilled" THEN "ok" ELSE IF p = "rejected" THEN "err" ELSE "none"

\* task t suspends at an await and will resume at k
Await(w, t, what, own, k, got, val) ==
    [w EXCEPT !.tasks[t] =
        [w.tasks[t] EXCEPT !.pc = k, !.wait = what, !.own = own,
                           !.got = got, !.val = val]]

\* a promise settles: every task awaiting it gets the outcome
Deliver(w, what, got, val) ==
    [w EXCEPT !.tasks =
        [u \in TaskIds |->
            IF w.tasks[u].wait = what /\ w.tasks[u].got = "none"
            THEN [w.tasks[u] EXCEPT !.got = got, !.val = val]
            ELSE w.tasks[u]]]

\* the microtask queue is empty: timers and I/O callbacks run only then
Quiescent == \A u \in TaskIds : tasks[u].got = "none"

\* (mutation) the field is cleared without clearInterval
stopHeartbeat_FieldOnly(w) == [w EXCEPT !.mgr.heartbeatTimer = 0]

\* stopHeartbeat: clearInterval and null the field, when a timer is set
stopHeartbeat(w) ==
    IF w.mgr.heartbeatTimer # 0
    THEN [w EXCEPT !.env.timers = {x \in w.env.timers : x.id # w.mgr.heartbeatTimer},
                   !.mgr.heartbeatTimer = 0]
    ELSE w

\* resetConnection up to its await: joins the reset in flight, or counts a
\* reconnect, drops the session and the timer and starts destroy()
resetConnection(w, t, k) ==
    IF w.mgr.resetPromise # "null"
    THEN Await(w, t, "reset", FALSE, k, Settled(w.mgr.resetPromise), 0)
    ELSE LET synapse == w.mgr.synapse
             destroys == synapse # 0 /\ w.env.sdk = "with_destroy"
             w1 == stopHeartbeat([w EXCEPT !.mgr.reconnectCount = @ + 1])
             w2 == [w1 EXCEPT
                      !.mgr.synapse = 0,
                      !.mgr.lastHeartbeat = Null,
                      !.mgr.lastReconnect = Null,
                      !.mgr.resetPromise = IF destroys THEN "pending" ELSE "fulfilled",
                      !.env.destroying = IF destroys THEN @ \cup {synapse} ELSE @]
         IN  Await(w2, t, "reset", TRUE, k, IF destroys THEN "none" ELSE "ok", 0)

\* (mutation) every use of a held session finds the refresh due
RefreshDue_Always(w) == w.mgr.synapse # 0

\* elapsed >= forcedReconnectInterval on a held session
RefreshDue(w) ==
    /\ w.mgr.synapse # 0
    /\ ForcedReconnectInterval > 0
    /\ w.mgr.lastReconnect # Null
    /\ w.env.clock - w.mgr.lastReconnect >= ForcedReconnectInterval

\* refreshConnectionIfNeeded up to its await: returns, joins the refresh in
\* flight, or starts one (whose body runs up to its own first await)
refreshConnectionIfNeeded(w, t, k) ==
    IF ~RefreshDue(w)
    THEN Await(w, t, "return", FALSE, k, "ok", 0)
    ELSE IF w.mgr.refreshPromise # "null"
    THEN Await(w, t, "refresh", FALSE, k, Settled(w.mgr.refreshPromise), 0)
    ELSE LET w1 == resetConnection(w, Refresher, "refresh_reset")
             w2 == [w1 EXCEPT !.mgr.refreshPromise = "pending"]
         IN  Await(w2, t, "refresh", TRUE, k, "none", 0)

\* this.connectPromise = this.createSynapse(): one more createSynapse call is
\* in flight and its first Synapse.create is sent
createSynapse(w) ==
    [w EXCEPT !.mgr.connectPromise = "pending",
              !.env.connect = [pc |-> "creating", attempt |-> 1, sleepMs |-> 0,
                               inFlight |-> @.inFlight + 1]]

\* (mutation) getSynapse that does not look at connectPromise
getSynapse_NoJoin(w, t, k) ==
    IF w.mgr.synapse # 0
    THEN Await(w, t, "return", FALSE, k, "ok", w.mgr.synapse)
    ELSE Await(createSynapse(w), t, "connect", TRUE, k, "none", 0)

\* getSynapse up to its await: the held session, the connect in flight, or a
\* new createSynapse()
getSynapse(w, t, k) ==
    IF w.mgr.synapse # 0
    THEN Await(w, t, "return", FALSE, k, "ok", w.mgr.synapse)
    ELSE IF w.mgr.connectPromise # "null"
    THEN Await(w, t, "connect", FALSE, k, Settled(w.mgr.connectPromise),
               w.mgr.connectValue)
    ELSE Await(createSynapse(w), t, "connect", TRUE, k, "none", 0)

\* the first idle performHeartbeat slot (0: none)
FreeBeat(w) ==
    LET idle == {i \in 1..MaxBeats : w.tasks[<<"beat", i>>].pc = "idle"}
    IN  IF idle = {} THEN 0 ELSE CHOOSE i \in idle : \A j \in idle : i <= j

\* performHeartbeat up to its await; when refreshConnectionIfNeeded returns at
\* once, nothing is left to do after the await and the call is over
performHeartbeat(w, getNetworkThrows) ==
    IF w.mgr.synapse = 0
    THEN w
    ELSE IF getNetworkThrows
    THEN resetConnection([w EXCEPT !.mgr.lastError = "heartbeat"],
                         <<"beat", FreeBeat(w)>>, "performHeartbeat_reset")
    ELSE IF ~RefreshDue(w)
    THEN [w EXCEPT !.mgr.lastHeartbeat = w.env.clock]
    ELSE refreshConnectionIfNeeded([w EXCEPT !.mgr.lastHeartbeat = w.env.clock],
                                   <<"beat", FreeBeat(w)>>, "performHeartbeat_refresh")

\* startHeartbeat: replaces the interval timer and beats once at once
startHeartbeat(w) ==
    LET w1 == stopHeartbeat(w)
        w2 == [w1 EXCEPT
                 !.mgr.heartbeatTimer = w1.mgr.synapse,
                 !.env.timers = @ \cup {[id |-> w1.mgr.synapse,
                                         due |-> w1.env.clock + HeartbeatInterval]}]
    IN  performHeartbeat(w2, FALSE)

\* (mutation) resetConnection without its finally: resetPromise is never cleared
AfterAwait_KeepsResetGuard(w, tk) ==
    IF ~tk.own
    THEN w
    ELSE IF tk.wait = "connect"
    THEN LET w1 == IF tk.got = "ok"
                   THEN startHeartbeat([w EXCEPT
                                          !.mgr.synapse = tk.val,
                                          !.mgr.lastHeartbeat = w.env.clock,
                                          !.mgr.lastReconnect = w.env.clock,
                                          !.mgr.lastError = "null"])
                   ELSE w
         IN  [w1 EXCEPT !.mgr.connectPromise = "null", !.mgr.connectValue = 0]
    ELSE IF tk.wait = "reset"
    THEN w
    ELSE [w EXCEPT !.mgr.refreshPromise = "null"]

\* the rest of the callee once its await has settled: getSynapse installs the
\* session it created and starts the heartbeat; every creator clears its guard
AfterAwait(w, tk) ==
    IF ~tk.own
    THEN w
    ELSE IF tk.wait = "connect"
    THEN LET w1 == IF tk.got = "ok"
                   THEN startHeartbeat([w EXCEPT
                                          !.mgr.synapse = tk.val,
                                          !.mgr.lastHeartbeat = w.env.clock,
                                          !.mgr.lastReconnect = w.env.clock,
                                          !.mgr.lastError = "null"])
                   ELSE w
         IN  [w1 EXCEPT !.mgr.connectPromise = "null", !.mgr.connectValue = 0]
    ELSE IF tk.wait = "reset"
    THEN [w EXCEPT !.mgr.resetPromise = "null"]
    ELSE [w EXCEPT !.mgr.refreshPromise = "null"]

\* a withConnection or initialize call settles
Done(w, t, result, error, thrownBy) ==
    [w EXCEPT !.tasks[t] =
        [w.tasks[t] EXCEPT !.pc = "done", !.wait = "none", !.own = FALSE,
                           !.got = "none", !.val = 0, !.result = result,
                           !.error = error, !.thrownBy = thrownBy]]

\* the retry rule of withConnection's catch: if (attempt === 0) return execute(1)
Retries(attempt) == attempt = 0

\* execute(attempt) after resetConnection() returned: retry once, else rethrow
AfterReset(w, t) ==
    IF Retries(w.tasks[t].attempt)
    THEN refreshConnectionIfNeeded([w EXCEPT !.tasks[t].attempt = @ + 1], t,
                                   "execute_refresh")
    ELSE Done(w, t, "threw", "operation", Len(w.tasks[t].calls))

\* the code of task t from the await that has settled up to its next await
Continue(w0, t) ==
    LET tk == w0.tasks[t]
        w == AfterAwait(w0, tk)
    IN  CASE tk.pc = "execute_refresh" ->
                IF tk.got = "ok"
                THEN getSynapse(w, t, "execute_getSynapse")
                ELSE Done(w, t, "threw", "connect", 0)
          [] tk.pc = "execute_getSynapse" ->
                IF tk.got = "ok"
                THEN [w EXCEPT !.tasks[t] =
                        [tk EXCEPT !.pc = "execute_fn", !.wait = "fn", !.own = FALSE,
                                   !.got = "none", !.val = 0,
                                   !.calls = Append(@, [session |-> tk.val,
                                                        outcome |-> "running"])]]
                ELSE Done(w, t, "threw", "connect", 0)
          [] tk.pc = "execute_reset" -> AfterReset(w, t)
          [] tk.pc = "performHeartbeat_refresh" ->
                IF tk.got = "ok"
                THEN [w EXCEPT !.tasks[t] = IdleTask]
                ELSE resetConnection([w EXCEPT !.mgr.lastError = "connect"], t,
                                     "performHeartbeat_reset")
          [] tk.pc = "performHeartbeat_reset" -> [w EXCEPT !.tasks[t] = IdleTask]
          [] tk.pc = "refresh_reset" -> getSynapse(w, t, "refresh_getSynapse")
          [] tk.pc = "refresh_getSynapse" ->
                Deliver([w EXCEPT !.tasks[t] = IdleTask,
                                  !.mgr.refreshPromise =
                                      IF tk.got = "ok" THEN "fulfilled" ELSE "rejected"],
                        "refresh", tk.got, 0)
          [] tk.pc = "initialize_getSynapse" ->
                IF tk.got = "ok"
                THEN Done(w, t, "returned", "none", 0)
                ELSE Done(w, t, "threw", "connect", 0)

\* new SynapseService(privateKey, backendAddress), with the SDK build at hand:
\* its Synapse has a destroy() method or has none
Construct(sdk) ==
    /\ env.sdk = "none"
    /\ env' = [env EXCEPT !.sdk = sdk]
    /\ UNCHANGED <<mgr, tasks>>
    /\ UNCHANGED notConn

\* initialize(): await this.getSynapse(), before the server listens
initialize ==
    /\ env.sdk # "none"
    /\ tasks[Initializer].pc = "idle"
    /\ Commit(getSynapse(Here, Initializer, "initialize_getSynapse"))
    /\ UNCHANGED notConn

\* a request calls withConnection: execute(0) up to its first await
withConnection(c) ==
    /\ Quiescent
    /\ tasks[Initializer].result = "returned"
    /\ tasks[c].pc = "idle"
    /\ \A d \in Callers : d[2] < c[2] => tasks[d].pc # "idle"
    /\ Commit(refreshConnectionIfNeeded(Here, c, "execute_refresh"))
    /\ UNCHANGED notConn

\* a microtask: a task whose await has settled runs up to its next await; the
\* creator of a promise awaited it first and so resumes before those who joined
Resume(t) ==
    /\ tasks[t].got # "none"
    /\ \/ tasks[t].own
       \/ ~\E u \in TaskIds :
              tasks[u].wait = tasks[t].wait /\ tasks[u].own /\ tasks[u].got # "none"
    /\ Commit(Continue(Here, t))
    /\ UNCHANGED notConn

\* Math.min
Min(a, b) == IF a <= b THEN a ELSE b

\* Synapse.create settles: the connect resolves with a new session, or
\* createSynapse notes the error and sleeps min(1000 * attempt, 5000)

CreateSettles(ok) ==
    /\ Quiescent
    /\ env.connect.pc = "creating"
    /\ IF ok
       THEN /\ env.nextSession <= MaxSessions
            /\ Commit(Deliver([Here EXCEPT
                                 !.mgr.connectPromise = "fulfilled",
                                 !.mgr.connectValue = env.nextSession,
                                 !.env.nextSession = @ + 1,
                                 !.env.connect = [pc |-> "idle", attempt |-> 0,
                                                  sleepMs |-> 0,
                                                  inFlight |-> @.inFlight - 1]],
                              "connect", "ok", env.nextSession))
       ELSE Commit([Here EXCEPT
                      !.mgr.lastError = "connect",
                      !.env.connect.pc = "sleeping",
                      !.env.connect.sleepMs = Min(1000 * env.connect.attempt, 5000)])
    /\ UNCHANGED notConn

\* (mutation) while (true): the loop never gives up
SleepEnds_NoLimit ==
    /\ Quiescent
    /\ env.connect.pc = "sleeping"
    /\ Commit([Here EXCEPT
                 !.env.connect = [@ EXCEPT !.pc = "creating",
                                           !.attempt = @ + 1,
                                           !.sleepMs = 0]])
    /\ UNCHANGED notConn

\* the sleep ends: the next attempt, or throw lastError after the fifth
SleepEnds ==
    /\ Quiescent
    /\ env.connect.pc = "sleeping"
    /\ IF env.connect.attempt < MaxConnectAttempts
       THEN Commit([Here EXCEPT
                      !.env.connect = [@ EXCEPT !.pc = "creating",
                                                !.attempt = @ + 1,
                                                !.sleepMs = 0]])
       ELSE Commit(Deliver([Here EXCEPT
                              !.mgr.connectPromise = "rejected",
                              !.env.connect = [pc |-> "idle", attempt |-> 0,
                                               sleepMs |-> 0,
                                               inFlight |-> @.inFlight - 1]],
                           "connect", "err", 0))
    /\ UNCHANGED notConn

\* destroy() settles (its error is swallowed): the reset promise resolves
DestroySettles ==
    /\ Quiescent
    /\ \E s \in env.destroying :
          Commit(Deliver([Here EXCEPT
                            !.mgr.resetPromise = "fulfilled",
                            !.env.destroying = @ \ {s}],
                         "reset", "ok", 0))
    /\ UNCHANGED notConn

\* fn(synapse) settles: the result is returned, or the catch notes the error
\* and calls resetConnection()
FnSettles(c, ok) ==
    /\ Quiescent
    /\ tasks[c].wait = "fn"
    /\ LET n == Len(tasks[c].calls)
       IN  IF ok
           THEN Commit(Done([Here EXCEPT
                               !.mgr.lastHeartbeat = env.clock,
                               !.mgr.lastError = "null",
                               !.tasks[c].calls[n].outcome = "ok"],
                            c, "returned", "none", 0))
           ELSE Commit(resetConnection(
                           [Here EXCEPT !.mgr.lastError = "operation",
                                        !.tasks[c].calls[n].outcome = "threw"],
                           c, "execute_reset"))
    /\ UNCHANGED notConn

\* the interval timer fires: void this.performHeartbeat()
TimerFires(getNetworkThrows) ==
    /\ Quiescent
    /\ getNetworkThrows => mgr.synapse # 0
    /\ FreeBeat(Here) # 0
    /\ \E x \in env.timers :
          /\ x.due <= env.clock
          /\ Commit(performHeartbeat(
                 [Here EXCEPT !.env.timers =
                     (@ \ {x}) \cup {[x EXCEPT !.due = @ + HeartbeatInterval]}],
                 getNetworkThrows))
    /\ UNCHANGED notConn

\* time passes, once the interval timer that is due has fired
ClockTick ==
    /\ Quiescent
    /\ env.sdk # "none"
    /\ \A x \in env.timers : env.clock < x.due \/ FreeBeat(Here) = 0
    /\ Cardinality({x \in Instants : x <= env.clock}) <= MaxTicks
    /\ env' = [env EXCEPT !.clock = NextInstant(@)]
    /\ UNCHANGED <<mgr, tasks>>
    /\ UNCHANGED notConn

\* the request whose withConnection call has settled is over; a later request
\* (uploadFile, downloadFile, getBalance, ...) takes its place
NextRequest(c) ==
    /\ Quiescent
    /\ tasks[c].pc = "done"
    /\ tasks' = [tasks EXCEPT ![c] = IdleTask]
    /\ UNCHANGED <<mgr, env>>
    /\ UNCHANGED notConn

ConnNext ==
    \/ \E sdk \in {"with_destroy", "without_destroy"} : Construct(sdk)
    \/ initialize
    \/ \E c \in Callers : withConnection(c)
    \/ \E t \in TaskIds : Resume(t)
    \/ \E ok \in BOOLEAN : CreateSettles(ok)
    \/ SleepEnds
    \/ DestroySettles
    \/ \E c \in Callers, ok \in BOOLEAN : FnSettles(c, ok)
    \/ \E getNetworkThrows \in BOOLEAN : TimerFires(getNetworkThrows)
    \/ ClockTick

----------------------------------------------------------------------------
(* POST /api/initiate-storage and UploadService *)

\* upload requests that may be in flight together (the first request slots)
MaxUploads == 2
Uploads == {p \in Slots : p <= MaxUploads}

\* content addresses (piece CIDs) the storage network may return
PieceCids == {"baga1", "baga2"}
ProviderIds == {"f01"}

\* a user_files row; present is FALSE where the table has no row with that id
NoFile ==
    [present |-> FALSE, user_address |-> "0xa", commp |-> "null",
     provider_id |-> "null", storage_cost |-> toString(0), uploaded_at |-> Null]

\* a request slot of the route: pc is the await the handler is at (deductCredits
\* until that call has returned), the other fields are the response sent
IdleRequest ==
    [pc |-> "deductCredits", status |-> 0, error |-> "none",
     currentBalance |-> toString(0), requiredAmount |-> toString(0),
     storageCost |-> toString(0)]

InitUpload ==
    /\ userFiles = [id \in Slots |-> NoFile]
    /\ requests = [p \in Slots |-> IdleRequest]
    /\ storage = <<>>

\* Database.createUserFile: INSERT; id is the PRIMARY KEY
createUserFileRejected(id) == userFiles[id].present

\* (mutation) the INSERT leaves out storage_cost
createUserFile_WithoutCost(file) ==
    [userFiles EXCEPT ![file.id] =
        [present |-> TRUE, user_address |-> file.user_address,
         commp |-> file.commp, provider_id |-> file.provider_id,
         storage_cost |-> toString(0), uploaded_at |-> Null]]

\* the row is written with the commp and provider_id passed and uploaded_at null
createUserFile(file) ==
    [userFiles EXCEPT ![file.id] =
        [present |-> TRUE, user_address |-> file.user_address,
         commp |-> file.commp, provider_id |-> file.provider_id,
         storage_cost |-> file.storage_cost, uploaded_at |-> Null]]

\* (mutation) the UPDATE rewrites the whole row, blanking what updates leaves out
updateUserFile_Replacing(id, updates) ==
    IF DOMAIN updates = {} \/ ~userFiles[id].present
    THEN userFiles
    ELSE [userFiles EXCEPT ![id] =
            [f \in DOMAIN NoFile |->
                IF f \in DOMAIN updates THEN updates[f]
                ELSE IF f = "present" THEN TRUE ELSE NoFile[f]]]

\* Database.updateUserFile: sets the columns that updates defines, of the row
\* with that id; no statement is run when updates defines none
updateUserFile(id, updates) ==
    IF DOMAIN updates = {} \/ ~userFiles[id].present
    THEN userFiles
    ELSE LET row == userFiles[id]
         IN  [userFiles EXCEPT ![id] =
                 [f \in DOMAIN row |->
                     IF f \in DOMAIN updates THEN updates[f] ELSE row[f]]]

\* the handler has sent its response
Responded(r, status, error) == [r EXCEPT !.pc = "responded", !.status = status,
                                         !.error = error]

\* the handler up to its first await: requests without a file, a userAddress or
\* a storageDurationDays are answered 400 and change nothing; the others get a
\* file id and a cost, and deductCredits is called
InitiateStorage(p, userAddress, cost) ==
    /\ requests[p].pc = "deductCredits"
    /\ DeductCredits(p, userAddress, cost, FileIdOf(p))

\* (mutation) the result of deductCredits is not looked at
DeductionRefused_Ignored(outcome) == FALSE

\* if (!deduction.success)
DeductionRefused(outcome) == outcome # "ok"

\* deductCredits has returned: the 402 response, or initiateUpload is called
\* and issues the INSERT of the file record
AfterDeduct(p) ==
    /\ requests[p].pc = "deductCredits"
    /\ ops[p].pc = "done" /\ ops[p].kind = "deduct"
    /\ IF DeductionRefused(ops[p].outcome)
       THEN requests' = [requests EXCEPT ![p] =
                [Responded(requests[p], 402, "Insufficient credits")
                    EXCEPT !.currentBalance = toString(ops[p].reportedBalance),
                           !.requiredAmount = toString(ops[p].requiredAmount)]]
       ELSE requests' = [requests EXCEPT ![p].pc = "createUserFile"]
    /\ UNCHANGED <<userFiles, storage>>
    /\ UNCHANGED <<credits, transactions, ops>>
    /\ UNCHANGED notUpload

\* await this.db.createUserFile({..., commp: null, provider_id: null, ...});
\* then processUpload calls this.synapse.uploadFile
CreateUserFile(p) ==
    /\ requests[p].pc = "createUserFile"
    /\ IF createUserFileRejected(FileIdOf(p))
       THEN /\ requests' = [requests EXCEPT ![p] =
                              Responded(requests[p], 500, "Failed to initiate storage")]
            /\ UNCHANGED <<userFiles, storage>>
       ELSE /\ userFiles' = createUserFile(
                   [id |-> FileIdOf(p), user_address |-> ops[p].userAddress,
                    commp |-> "null", provider_id |-> "null",
                    storage_cost |-> toString(ops[p].amount)])
            /\ storage' = Append(storage, [fileId |-> FileIdOf(p),
                                           userAddress |-> ops[p].userAddress,
                                           state |-> "uploading", commp |-> "null",
                                           providerId |-> "null"])
            /\ requests' = [requests EXCEPT ![p].pc = "uploadFile"]
    /\ UNCHANGED <<credits, transactions, ops>>
    /\ UNCHANGED notUpload

\* the storage write of request p that has not settled
WriteOf(p) ==
    CHOOSE i \in 1..Len(storage) :
        storage[i].fileId = FileIdOf(p) /\ storage[i].state = "uploading"

\* (mutation) a failed storage write gives the cost back
UploadFileSettles_Refunding(p, ok, commp, providerId) ==
    /\ requests[p].pc = "uploadFile"
    /\ IF ok
       THEN /\ storage' = [storage EXCEPT ![WriteOf(p)].state = "stored",
                                          ![WriteOf(p)].commp = commp,
                                          ![WriteOf(p)].providerId = providerId]
            /\ requests' = [requests EXCEPT ![p].pc = "updateUserFile"]
            /\ credits' = credits
       ELSE /\ storage' = [storage EXCEPT ![WriteOf(p)].state = "failed"]
            /\ requests' = [requests EXCEPT ![p] =
                              Responded(requests[p], 500, "Failed to initiate storage")]
            /\ credits' = updateUserCreditBalance(
                              ops[p].userAddress,
                              toString(getBalance(ops[p].userAddress) + ops[p].amount))
    /\ UNCHANGED userFiles
    /\ UNCHANGED <<transactions, ops>>
    /\ UNCHANGED notUpload

\* this.synapse.uploadFile settles: with the piece CID and the provider, and the
\* UPDATE of the file record is issued; or it throws, processUpload rethrows
\* 'Synapse upload failed: ...' and the handler's catch answers 500
UploadFileSettles(p, ok, commp, providerId) ==
    /\ requests[p].pc = "uploadFile"
    /\ IF ok
       THEN /\ storage' = [storage EXCEPT ![WriteOf(p)].state = "stored",
                                          ![WriteOf(p)].commp = commp,
                                          ![WriteOf(p)].providerId = providerId]
            /\ requests' = [requests EXCEPT ![p].pc = "updateUserFile"]
       ELSE /\ storage' = [storage EXCEPT ![WriteOf(p)].state = "failed"]
            /\ requests' = [requests EXCEPT ![p] =
                              Responded(requests[p], 500, "Failed to initiate storage")]
    /\ UNCHANGED userFiles
    /\ UNCHANGED <<credits, transactions, ops>>
    /\ UNCHANGED notUpload

\* what the storage write of request p returned
UploadResult(p) ==
    storage[CHOOSE i \in 1..Len(storage) : storage[i].fileId = FileIdOf(p)]

\* await this.db.updateUserFile(fileId, {commp, provider_id, uploaded_at});
\* then the handler answers {status: 'completed', storageCost}
UpdateUserFile(p) ==
    /\ requests[p].pc = "updateUserFile"
    /\ userFiles' = updateUserFile(FileIdOf(p),
                                   [commp |-> UploadResult(p).commp,
                                    provider_id |-> UploadResult(p).providerId,
                                    uploaded_at |-> wallClock])
    /\ requests' = [requests EXCEPT ![p] =
                      [Responded(requests[p], 200, "none")
                          EXCEPT !.storageCost = toString(ops[p].amount)]]
    /\ UNCHANGED storage
    /\ UNCHANGED <<credits, transactions, ops>>
    /\ UNCHANGED notUpload

\* upload requests arrive at any time; their steps interleave freely
UploadNext ==
    \E p \in Uploads :
        \/ \E a \in Addresses, n \in Amounts : InitiateStorage(p, a, n)
        \/ DeductGetBalance(p)
        \/ DeductUpdate(p)
        \/ DeductLog(p)
        \/ AfterDeduct(p)
        \/ CreateUserFile(p)
        \/ \E ok \in BOOLEAN, c \in PieceCids, pr \in ProviderIds :
              UploadFileSettles(p, ok, c, pr)
        \/ UpdateUserFile(p)

----------------------------------------------------------------------------
(* GET /api/credits/:userAddress and GET /api/credits/history/:userAddress *)

\* Date.now() advances by at most MaxClock milliseconds in all
MaxClock == 2

\* credits and debits made while the reads are observed (the first request slots)
MaxWrites == 2
Writers == {p \in Slots : p <= MaxWrites}

\* ?limit= values of the history route: none, or parseInt of the parameter
Limits == {Null, 0, 1, 2}

\* nothing read yet
NoResponse ==
    [kind |-> "none", address |-> "0xa", limit |-> Null, balance |-> toString(0),
     transactions |-> <<>>]

\* ORDER BY created_at says nothing about rows with equal created_at: the
\* database returns them in the order the query plan visits them, which is one
\* order for the life of the process
TieOrders == {"oldest_first", "newest_first"}

InitReads == reads = [ties |-> "unknown", last |-> NoResponse]

\* db.initialize(): the database is opened and its plans are fixed
OpenDatabase(ties) ==
    /\ reads.ties = "unknown"
    /\ reads' = [reads EXCEPT !.ties = ties]
    /\ UNCHANGED wallClock
    /\ UNCHANGED notReads

\* a millisecond passes
TickWallClock ==
    /\ reads.ties # "unknown"
    /\ wallClock < MaxClock
    /\ wallClock' = wallClock + 1
    /\ UNCHANGED reads
    /\ UNCHANGED notReads

\* row i comes before row j in ORDER BY created_at DESC
Before(i, j, ties) ==
    \/ transactions[i].created_at > transactions[j].created_at
    \/ /\ transactions[i].created_at = transactions[j].created_at
       /\ IF ties = "oldest_first" THEN i < j ELSE i > j

\* the rows numbered in I in ORDER BY created_at DESC
RECURSIVE Ordered(_, _)
Ordered(I, ties) ==
    IF I = {} THEN <<>>
    ELSE LET first == CHOOSE i \in I : \A j \in I \ {i} : Before(i, j, ties)
         IN  <<transactions[first]>> \o Ordered(I \ {first}, ties)

\* WHERE user_address = ?
Selected(userAddress) ==
    {i \in 1..Len(transactions) : transactions[i].user_address = userAddress}

\* Database.getCreditTransactions: LIMIT ? is added when limit is truthy
getCreditTransactions(userAddress, limit, ties) ==
    LET rows == Ordered(Selected(userAddress), ties)
    IN  IF limit # Null /\ limit # 0
        THEN SubSeq(rows, 1, Min(limit, Len(rows)))
        ELSE rows

\* (mutation) a balance read creates the account it does not find
GetBalanceRoute_Creating(userAddress) ==
    /\ reads.ties # "unknown"
    /\ reads' = [reads EXCEPT !.last =
                    [NoResponse EXCEPT !.kind = "getBalance",
                                       !.address = toLowerCase(userAddress),
                                       !.balance =
                                           toString(getBalance(toLowerCase(userAddress)))]]
    /\ credits' = IF credits[toLowerCase(userAddress)].present
                  THEN credits
                  ELSE createUserCredit(toLowerCase(userAddress), toString(0))
    /\ UNCHANGED <<transactions, ops, wallClock>>
    /\ UNCHANGED <<pollVars, fundVars, connVars, uploadVars, route, swaps>>

\* GET /credits/:userAddress: creditService.getBalance and the response
GetBalanceRoute(userAddress) ==
    /\ reads.ties # "unknown"
    /\ reads' = [reads EXCEPT !.last =
                    [NoResponse EXCEPT !.kind = "getBalance",
                                       !.address = toLowerCase(userAddress),
                                       !.balance =
                                           toString(getBalance(toLowerCase(userAddress)))]]
    /\ UNCHANGED wallClock
    /\ UNCHANGED notReads

\* GET /credits/history/:userAddress: db.getCreditTransactions and the response
GetHistoryRoute(userAddress, limit) ==
    /\ reads.ties # "unknown"
    /\ reads' = [reads EXCEPT !.last =
                    [NoResponse EXCEPT !.kind = "history",
                                       !.address = toLowerCase(userAddress),
                                       !.limit = limit,
                                       !.transactions =
                                           getCreditTransactions(toLowerCase(userAddress),
                                                                 limit, reads.ties)]]
    /\ UNCHANGED wallClock
    /\ UNCHANGED notReads

----------------------------------------------------------------------------
(* OnlySwaps route discovery *)

\* NETWORKS = [...MAINNET_NETWORKS, ...TESTNET_NETWORKS] (the router addresses
\* are left out)
NETWORKS ==
    <<[chainId |-> 42161, testnet |-> FALSE], [chainId |-> 43114, testnet |-> FALSE],
      [chainId |-> 8453, testnet |-> FALSE], [chainId |-> 56, testnet |-> FALSE],
      [chainId |-> 1, testnet |-> FALSE], [chainId |-> 314, testnet |-> FALSE],
      [chainId |-> 59144, testnet |-> FALSE], [chainId |-> 10, testnet |-> FALSE],
      [chainId |-> 534352, testnet |-> FALSE],
      [chainId |-> 5042002, testnet |-> TRUE], [chainId |-> 43113, testnet |-> TRUE],
      [chainId |-> 84532, testnet |-> TRUE], [chainId |-> 314159, testnet |-> TRUE]>>

\* TOKENS = [...MAINNET_TOKENS, ...TESTNET_TOKENS]
TOKENS ==
    <<[symbol |-> "USDFC", chainId |-> 314,
       address |-> "0x80B98d3aa09ffff255c3ba4A241111Ff1262F045"],
      [symbol |-> "USDT", chainId |-> 42161,
       address |-> "0xFd086bC7CD5C481DCC9C85ebE478A1C0b69FCbb9"],
      [symbol |-> "USDT", chainId |-> 43114,
       address |-> "0x9702230A8Ea53601f5cD2dc00fDBc13d4dF4A8c7"],
      [symbol |-> "USDT", chainId |-> 8453,
       address |-> "0xfde4C96c8593536E31F229EA8f37b2ADa2699bb2"],
      [symbol |-> "USDT", chainId |-> 56,
       address |-> "0x55d398326f99059ff775485246999027b3197955"],
      [symbol |-> "USDT", chainId |-> 1,
       address |-> "0xdac17f958d2ee523a2206206994597c13d831ec7"],
      [symbol |-> "USDT", chainId |-> 59144,
       address |-> "0xA219439258ca9da29E9Cc4cE5596924745e12B93"],
      [symbol |-> "USDT", chainId |-> 10,
       address |-> "0x94b008aA00579c1307B0EF2c499aD98a8ce58e58"],
      [symbol |-> "USDT", chainId |-> 534352,
       address |-> "0xf55bec9cafdbe8730f096aa55dad6d22d44099df"],
      [symbol |-> "RUSD", chainId |-> 5042002,
       address |-> "0xeEFEBadf8f73192D210a64C97bC032C51f995666"],
      [symbol |-> "RUSD", chainId |-> 43113,
       address |-> "0x908e1D85604E0e9e703d52D18f3f3f604Fe7Bb1b"],
      [symbol |-> "RUSD", chainId |-> 84532,
       address |-> "0x908e1D85604E0e9e703d52D18f3f3f604Fe7Bb1b"],
      [symbol |-> "FUSD", chainId |-> 84532,
       address |-> "0xe3B0F6a4F29f5919d51C56Bad60788Aaeecec71f"],
      [symbol |-> "USDFC", chainId |-> 314159,
       address |-> "0xb3042734b608a1B16e9e86B374A3f3e389B4cDf0"]>>

\* TOKENS_BY_CHAIN[chainId] ?? []
TOKENS_BY_CHAIN(chainId) == SelectSeq(TOKENS, LAMBDA t : t.chainId = chainId)

\* const filecoinChainId = 314
filecoinChainId == 314

\* a chain id that is in no table
UnknownChainId == 999

Environments == {"development", "production"}
InputChainIds == {NETWORKS[k].chainId : k \in 1..Len(NETWORKS)} \cup {UnknownChainId}
InputSymbols == {"USDT", "USDFC", "RUSD", "FUSD", "DAI"}

\* Array.prototype.find: the first of the elements that satisfy the test (hits),
\* or undefined
Undefined == [symbol |-> "undefined", chainId |-> 0, address |-> "undefined"]

Find(hits) == IF Len(hits) = 0 THEN Undefined ELSE hits[1]

\* the concatenation of the sequences f[1], ..., f[n]
RECURSIVE Flatten(_, _)
Flatten(f, n) == IF n = 0 THEN <<>> ELSE Flatten(f, n - 1) \o f[n]

\* new Set(NETWORKS.filter(n => isDev ? isTestnet(n) : !isTestnet(n)).map(n => n.chainId))
allowedChains(environment) ==
    {NETWORKS[k].chainId : k \in {i \in 1..Len(NETWORKS) :
                                     NETWORKS[i].testnet = (environment = "development")}}

\* the keys of symbolToTokens in insertion order: the symbols of the allowed
\* tokens in the order of their first occurrence in TOKENS
RECURSIVE KeysOf(_)
KeysOf(tokens) ==
    IF Len(tokens) = 0 THEN <<>>
    ELSE LET before == KeysOf(SubSeq(tokens, 1, Len(tokens) - 1))
             symbol == tokens[Len(tokens)].symbol
         IN  IF \E k \in 1..Len(before) : before[k] = symbol
             THEN before
             ELSE Append(before, symbol)

\* symbolToTokens.get(symbol): the allowed tokens with that symbol
symbolToTokens(environment, symbol) ==
    SelectSeq(TOKENS, LAMBDA t : t.chainId \in allowedChains(environment) /\ t.symbol = symbol)

symbolKeys(environment) ==
    KeysOf(SelectSeq(TOKENS, LAMBDA t : t.chainId \in allowedChains(environment)))

SupportedPair(a, b, symbol) ==
    [srcChainId |-> a.chainId, dstChainId |-> b.chainId, tokenSymbol |-> symbol,
     srcTokenAddress |-> a.address, dstTokenAddress |-> b.address]

\* the two nested loops over one symbol's list: every i, j with i # j
directPairs(list, symbol) ==
    LET n == Len(list)
        cell == [k \in 1..(n * n) |->
                    LET i == ((k - 1) \div n) + 1
                        j == ((k - 1) % n) + 1
                    IN  IF i = j THEN <<>>
                        ELSE <<SupportedPair(list[i], list[j], symbol)>>]
    IN  Flatten(cell, n * n)

\* the mainnet special case: USDT on every other chain <-> USDFC on Filecoin
specialPairs(environment) ==
    LET usdfc == Find(SelectSeq(TOKENS_BY_CHAIN(filecoinChainId),
                                LAMBDA t : t.symbol = "USDFC"))
        list == symbolToTokens(environment, "USDT")
        cell == [k \in 1..Len(list) |->
                    IF list[k].chainId = filecoinChainId THEN <<>>
                    ELSE <<SupportedPair(list[k], usdfc, "USDT"),
                           SupportedPair(usdfc, list[k], "USDT")>>]
    IN  IF environment # "development" /\ usdfc # Undefined
           /\ \E k \in 1..Len(symbolKeys(environment)) : symbolKeys(environment)[k] = "USDT"
        THEN Flatten(cell, Len(list))
        ELSE <<>>

listSupportedPairs(environment) ==
    LET keys == symbolKeys(environment)
        cell == [k \in 1..Len(keys) |->
                    directPairs(symbolToTokens(environment, keys[k]), keys[k])]
    IN  Flatten(cell, Len(keys)) \o specialPairs(environment)

\* the predicate of isRouteSupported's some() and resolveTokenMapping's find()
Matches(p, args) ==
    /\ p.srcChainId = args.srcChainId
    /\ p.dstChainId = args.dstChainId
    /\ p.tokenSymbol = args.tokenSymbol

isRouteSupported(args) ==
    LET pairs == listSupportedPairs(args.env)
    IN  \E k \in 1..Len(pairs) : Matches(pairs[k], args)

Returns(src, dst) ==
    [threw |-> "none", srcTokenAddress |-> src, dstTokenAddress |-> dst]

Throws(error) ==
    [threw |-> error, srcTokenAddress |-> "undefined", dstTokenAddress |-> "undefined"]

\* the symbol looked up on a chain by the special mapping
SpecialSymbol(chainId) == IF chainId = filecoinChainId THEN "USDFC" ELSE "USDT"

resolveTokenMapping(args) ==
    LET pairs == listSupportedPairs(args.env)
        direct == SelectSeq(pairs, LAMBDA p : Matches(p, args))
        src == Find(SelectSeq(TOKENS_BY_CHAIN(args.srcChainId),
                              LAMBDA t : t.symbol = SpecialSymbol(args.srcChainId)))
        dst == Find(SelectSeq(TOKENS_BY_CHAIN(args.dstChainId),
                              LAMBDA t : t.symbol = SpecialSymbol(args.dstChainId)))
    IN  IF Len(direct) > 0
        THEN Returns(direct[1].srcTokenAddress, direct[1].dstTokenAddress)
        ELSE IF /\ args.env = "production" /\ args.tokenSymbol = "USDT"
                /\ (args.srcChainId = filecoinChainId \/ args.dstChainId = filecoinChainId)
                /\ src # Undefined /\ dst # Undefined
        THEN Returns(src.address, dst.address)
        ELSE Throws("UnsupportedRouteError")

NoCall ==
    [fn |-> "none",
     args |-> [env |-> "development", srcChainId |-> 0, dstChainId |-> 0,
               tokenSymbol |-> "none"],
     supported |-> FALSE, result |-> Throws("none")]

InitRoute == route = NoCall

\* a caller asks whether the route is supported (the functions keep no state:
\* one call is observed)
CallIsRouteSupported(args) ==
    /\ route.fn = "none"
    /\ route' = [NoCall EXCEPT !.fn = "isRouteSupported", !.args = args,
                               !.supported = isRouteSupported(args)]
    /\ UNCHANGED notRoute

\* a caller resolves the token mapping of the route
CallResolveTokenMapping(args) ==
    /\ route.fn = "none"
    /\ route' = [NoCall EXCEPT !.fn = "resolveTokenMapping", !.args = args,
                               !.result = resolveTokenMapping(args)]
    /\ UNCHANGED notRoute

RouteArgs ==
    [env : Environments, srcChainId : InputChainIds, dstChainId : InputChainIds,
     tokenSymbol : InputSymbols]

RouteNext ==
    \E args \in RouteArgs :
        \/ CallIsRouteSupported(args)
        \/ CallResolveTokenMapping(args)

----------------------------------------------------------------------------
(* OnlySwapsService.swap *)

\* invocations of swap that may be in flight together
MaxSwaps == 2
SwapCalls == 1..MaxSwaps

\* SwapParams as far as swap reads them, with what getTokenDecimals finds for the
\* two tokens (Null: undefined); amount is 1500 base units and the fee 10
SwapInputs ==
    [amount : {1500}, amountIn : {Null, 2000}, amountOut : {Null, 1500, 3000},
     solverFee : {10},
     decimals : {<<Null, Null>>, <<6, 9>>, <<9, 6>>}]

\* 10n ** BigInt(n)
RECURSIVE Pow10(_)
Pow10(n) == IF n = 0 THEN 1 ELSE 10 * Pow10(n - 1)

scaleAmount(amount, srcDecimals, dstDecimals) ==
    IF srcDecimals = Null \/ dstDecimals = Null \/ srcDecimals = dstDecimals
    THEN amount
    ELSE IF srcDecimals > dstDecimals
    THEN amount \div Pow10(srcDecimals - dstDecimals)
    ELSE amount * Pow10(dstDecimals - srcDecimals)

\* an invocation not made yet: routerCalls counts its this.router.swap calls,
\* intents the requests those calls registered on the router
IdleSwap ==
    [pc |-> "idle", sent |-> [amountIn |-> 0, amountOut |-> 0, totalAmountIn |-> 0,
                              fee |-> 0],
     routerCalls |-> 0, intents |-> 0, result |-> "none", error |-> "none"]

InitSwap == swaps = [p \in SwapCalls |-> IdleSwap]

\* swap(params) up to its await: the amounts are derived and this.router.swap
\* is called
swap(p, params) ==
    /\ swaps[p].pc = "idle"
    /\ \A q \in SwapCalls : q < p => swaps[q].pc # "idle"
    /\ LET amountIn == IF params.amountIn # Null THEN params.amountIn
                       ELSE params.amount
           shouldDeriveAmountOut ==
               params.amountOut = Null \/ params.amountOut = params.amount
           amountOut == IF shouldDeriveAmountOut
                        THEN scaleAmount(amountIn, params.decimals[1],
                                         params.decimals[2])
                        ELSE params.amountOut
       IN  swaps' = [swaps EXCEPT ![p] =
                        [@ EXCEPT !.pc = "router.swap",
                                  !.sent = [amountIn |-> amountIn,
                                            amountOut |-> amountOut,
                                            totalAmountIn |-> amountIn + params.solverFee,
                                            fee |-> params.solverFee],
                                  !.routerCalls = @ + 1]]
    /\ UNCHANGED notSwap

\* (mutation) a failed router call is sent again
RouterSwapSettles_Retrying(p, ok, registered) ==
    /\ swaps[p].pc = "router.swap"
    /\ swaps[p].routerCalls <= MaxSwaps
    /\ swaps' = [swaps EXCEPT ![p] =
                    IF ok
                    THEN [@ EXCEPT !.pc = "done", !.result = "returned",
                                   !.intents = @ + 1]
                    ELSE [@ EXCEPT !.routerCalls = @ + 1,
                                   !.intents = IF registered THEN @ + 1 ELSE @]]
    /\ UNCHANGED notSwap

\* this.router.swap settles: its requestId is returned, or its error is logged
\* and rethrown (the request may or may not have reached the router by then)
RouterSwapSettles(p, ok, registered) ==
    /\ swaps[p].pc = "router.swap"
    /\ ok => registered
    /\ swaps' = [swaps EXCEPT ![p] =
                    IF ok
                    THEN [@ EXCEPT !.pc = "done", !.result = "returned",
                                   !.intents = @ + 1]
                    ELSE [@ EXCEPT !.pc = "done", !.result = "threw",
                                   !.error = "router.swap",
                                   !.intents = IF registered THEN @ + 1 ELSE @]]
    /\ UNCHANGED notSwap

SwapNext ==
    \/ \E p \in SwapCalls, params \in SwapInputs : swap(p, params)
    \/ \E p \in SwapCalls, ok \in BOOLEAN, registered \in BOOLEAN :
          RouterSwapSettles(p, ok, registered)

----------------------------------------------------------------------------
(* The request bodies of POST /api/fund-credits and POST /api/initiate-storage *)

\* SYNAPSE_COSTS
BYTES_RATE == 100
BYTES_LOCKUP == 1000
EPOCHS_PER_DAY == 2880

\* a body field as the handler receives it: not sent, the empty string, a
\* string that is a decimal integer, or another non-empty string ("abc")
NotSent == [kind |-> "undefined", s |-> toString(0)]
EmptyString == [kind |-> "empty", s |-> toString(0)]
OtherText == [kind |-> "text", s |-> toString(0)]
Decimal(n) == [kind |-> "decimal", s |-> toString(n)]

\* !field
Falsy(field) == field.kind \in {"undefined", "empty"}

\* parseInt(string): the integer, or NaN
parseInt(field) ==
    IF field.kind = "decimal" THEN [nan |-> FALSE, value |-> BigInt(field.s)]
    ELSE [nan |-> TRUE, value |-> 0]

\* an address or an id that was not sent
Missing == ""
\* req.file when the form has no file part
NoFileSent == Null

\* calculateStorageCost (CreditService.calculateCost passes its arguments on)
calculateStorageCost(fileSizeBytes, durationDays) ==
    LET durationEpochs == durationDays * EPOCHS_PER_DAY
        fileSize == fileSizeBytes
        rateCost == fileSize * BYTES_RATE * durationEpochs
        lockupCost == fileSize * BYTES_LOCKUP
    IN  rateCost + lockupCost

\* what the clients may send
SentAddresses == {Missing, "0xA"}
SentBridgeIds == {Missing, "r1"}
SentAmounts ==
    {NotSent, EmptyString, OtherText, Decimal(-AmountStep), Decimal(0),
     Decimal(AmountStep), Decimal(calculateStorageCost(1, 1))}
SentFiles == {NoFileSent, 0, 1}
SentDurations == {NotSent, OtherText, Decimal(-1), Decimal(0), Decimal(1)}

\* no request is between its first await and its response
NoRequestInFlight ==
    \A q \in Slots :
        ops[q].pc = "idle" \/ funds[q].pc = "done" \/ requests[q].pc = "responded"

\* POST /fund-credits up to the call of addCredits: 400 when a field is falsy;
\* BigInt(amount) throws a SyntaxError on a string that is no integer, and the
\* catch answers 500. A refused request leaves the slot to the next request.
PostFundCredits(p, userAddress, amount, bridgeRequestId) ==
    /\ funds[p].pc = "idle" /\ MayStart(p)
    /\ IF userAddress = Missing \/ Falsy(amount) \/ bridgeRequestId = Missing
       THEN funds' = [funds EXCEPT ![p] =
                        [IdleFund EXCEPT !.status = 400, !.result = "rejected"]]
       ELSE IF amount.kind = "text"
       THEN funds' = [funds EXCEPT ![p] =
                        [IdleFund EXCEPT !.status = 500, !.result = "threw"]]
       ELSE funds' = [funds EXCEPT ![p] =
                        [IdleFund EXCEPT !.pc = "posted",
                                         !.userAddress = userAddress,
                                         !.amount = amount.s,
                                         !.bridgeRequestId = bridgeRequestId]]
    /\ UNCHANGED <<credits, transactions, ops>>
    /\ UNCHANGED notFund

\* the request was answered before deductCredits was called: nothing but the
\* response changes, and the slot is left to the next request
Refused(p, status, error) ==
    /\ requests' = [requests EXCEPT ![p] =
                      [IdleRequest EXCEPT !.status = status, !.error = error]]
    /\ UNCHANGED <<userFiles, storage>>
    /\ UNCHANGED <<credits, transactions, ops>>
    /\ UNCHANGED notUpload

\* POST /initiate-storage up to the call of deductCredits: 400 without a file,
\* a userAddress or a storageDurationDays; durationDays = parseInt(...), and
\* BigInt(NaN) in calculateStorageCost throws a RangeError that the catch
\* answers with 500; otherwise the cost is computed and deductCredits is called
PostInitiateStorage(p, file, userAddress, storageDurationDays) ==
    /\ requests[p].pc = "deductCredits" /\ MayStart(p) /\ funds[p].pc = "idle"
    /\ IF file = NoFileSent THEN Refused(p, 400, "No file provided")
       ELSE IF userAddress = Missing THEN Refused(p, 400, "userAddress is required")
       ELSE IF Falsy(storageDurationDays)
       THEN Refused(p, 400, "storageDurationDays is required")
       ELSE LET durationDays == parseInt(storageDurationDays)
            IN  IF durationDays.nan
                THEN Refused(p, 500, "Failed to initiate storage")
                ELSE InitiateStorage(p, toLowerCase(userAddress),
                                     calculateStorageCost(file, durationDays.value))

\* funding and upload requests, one after the other, with any body
BodiesNext ==
    \E p \in Uploads :
        \/ /\ NoRequestInFlight
           /\ \E a \in SentAddresses, n \in SentAmounts, r \in SentBridgeIds :
                 PostFundCredits(p, a, n, r)
        \/ /\ NoRequestInFlight
           /\ \E f \in SentFiles, a \in SentAddresses, d \in SentDurations :
                 PostInitiateStorage(p, f, a, d)
        \/ RouteAddCredits(p)
        \/ AddGetBalance(p)
        \/ AddGetUserCredit(p)
        \/ AddWrite(p)
        \/ AddLog(p)
        \/ RouteRespond(p)
        \/ DeductGetBalance(p)
        \/ DeductUpdate(p)
        \/ DeductLog(p)
        \/ AfterDeduct(p)
        \/ CreateUserFile(p)
        \/ \E ok \in BOOLEAN, c \in PieceCids, pr \in ProviderIds :
              UploadFileSettles(p, ok, c, pr)
        \/ UpdateUserFile(p)

----------------------------------------------------------------------------
(* Ledger specifications *)

InitLedger ==
    /\ credits = [a \in Addresses |-> NoRow]
    /\ transactions = <<>>
    /\ ops = [p \in Slots |-> IdleOp]
    /\ wallClock = 0

vars ==
    <<credits, transactions, ops, wallClock, poll, source, now, pollLog, funds,
      mgr, tasks, env, userFiles, requests, storage, reads, route, swaps>>

Init ==
    /\ InitLedger /\ InitPoll /\ InitFund /\ InitConn /\ InitUpload /\ InitReads
    /\ InitRoute /\ InitSwap

\* the addresses are interchangeable: the first request is for the first of them
MayUse(a) == a = "0xa" \/ ops[1].pc # "idle"

\* requests arrive at any time and their database calls interleave freely
LedgerNext ==
    \E p \in Slots :
        \/ \E a \in Addresses, n \in Amounts, r \in BridgeIds :
              MayUse(a) /\ AddCredits(p, a, n, r)
        \/ \E a \in Addresses, n \in Amounts :
              MayUse(a) /\ DeductCredits(p, a, n, FileIdOf(p))
        \/ AddGetBalance(p)
        \/ AddGetUserCredit(p)
        \/ AddWrite(p)
        \/ AddLog(p)
        \/ DeductGetBalance(p)
        \/ DeductUpdate(p)
        \/ DeductLog(p)

SpecLedger == Init /\ [][LedgerNext]_vars

\* the same requests, each completing before the next one starts
LedgerNextSeq ==
    \E p \in Slots :
        \/ /\ NoOpInFlight
           /\ \E a \in Addresses, n \in Amounts, r \in BridgeIds :
                 MayUse(a) /\ AddCredits(p, a, n, r)
        \/ /\ NoOpInFlight
           /\ \E a \in Addresses, n \in Amounts :
                 MayUse(a) /\ DeductCredits(p, a, n, FileIdOf(p))
        \/ AddGetBalance(p)
        \/ AddGetUserCredit(p)
        \/ AddWrite(p)
        \/ AddLog(p)
        \/ DeductGetBalance(p)
        \/ DeductUpdate(p)
        \/ DeductLog(p)

SpecLedgerSeq == Init /\ [][LedgerNextSeq]_vars

\* calls one after the other, over a store whose writes may fail
LedgerNextFaults ==
    \/ LedgerNextSeq
    \/ \E p \in Slots : StoreWriteFails(p)

SpecLedgerFaults == Init /\ [][LedgerNextFaults]_vars

\* no call on this address is between its first and its last database call
NoOpInFlightOn(a) ==
    \A q \in Slots : ops[q].pc \in {"idle", "done"} \/ ops[q].userAddress # a

\* requests on one address come one after the other, requests on different
\* addresses run concurrently
LedgerNextPerAddress ==
    \E p \in Slots :
        \/ \E a \in Addresses, n \in Amounts, r \in BridgeIds :
              MayUse(a) /\ NoOpInFlightOn(a) /\ AddCredits(p, a, n, r)
        \/ \E a \in Addresses, n \in Amounts :
              MayUse(a) /\ NoOpInFlightOn(a) /\ DeductCredits(p, a, n, FileIdOf(p))
        \/ AddGetBalance(p)
        \/ AddGetUserCredit(p)
        \/ AddWrite(p)
        \/ AddLog(p)
        \/ DeductGetBalance(p)
        \/ DeductUpdate(p)
        \/ DeductLog(p)

SpecLedgerPerAddress == Init /\ [][LedgerNextPerAddress]_vars

\* N = MaxOps debits of one amount X against one address that holds B:
\* the ledger after one deposit of B (or a fresh ledger when B = 0)
DebitAddress == "0xa"
StartBalances == {k * (AmountStep \div 2) : k \in 0..5}

InitDebitLedger ==
    /\ \E B \in StartBalances :
          /\ credits = [a \in Addresses |->
                          IF a = DebitAddress /\ B > 0
                          THEN [present |-> TRUE, balance |-> toString(B)]
                          ELSE NoRow]
          /\ transactions =
                IF B > 0
                THEN <<[id |-> 1, user_address |-> DebitAddress, type |-> "deposit",
                        amount |-> toString(B), file_id |-> 0,
                        bridge_request_id |-> "r1", created_at |-> 0]>>
                ELSE <<>>
    /\ ops = [p \in Slots |-> IdleOp]
    /\ wallClock = 0

DebitsNext ==
    \E p \in Slots :
        \/ \E n \in Amounts :
              /\ IF p = 1 THEN TRUE ELSE n = ops[1].amount
              /\ DeductCredits(p, DebitAddress, n, FileIdOf(p))
        \/ DeductGetBalance(p)
        \/ DeductUpdate(p)
        \/ DeductLog(p)

InitDebits ==
    /\ InitDebitLedger /\ InitPoll /\ InitFund /\ InitConn /\ InitUpload /\ InitReads
    /\ InitRoute /\ InitSwap

SpecDebits == InitDebits /\ [][DebitsNext]_vars

\* credits and debits one after the other, while time passes and the balance
\* and the history are read at any point
ReadsNext ==
    \/ \E ties \in TieOrders : OpenDatabase(ties)
    \/ \E p \in Writers :
          \/ /\ NoOpInFlight
             /\ \E a \in Addresses, n \in Amounts, r \in BridgeIds :
                   MayUse(a) /\ AddCredits(p, a, n, r)
          \/ /\ NoOpInFlight
             /\ \E a \in Addresses, n \in Amounts :
                   MayUse(a) /\ DeductCredits(p, a, n, FileIdOf(p))
          \/ AddGetBalance(p)
          \/ AddGetUserCredit(p)
          \/ AddWrite(p)
          \/ AddLog(p)
          \/ DeductGetBalance(p)
          \/ DeductUpdate(p)
          \/ DeductLog(p)
    \/ TickWallClock
    \/ \E a \in UserAddresses : GetBalanceRoute(a)
    \/ \E a \in UserAddresses, limit \in Limits : GetHistoryRoute(a, limit)

SpecReads == Init /\ [][ReadsNext]_vars

\* calls of the route discovery functions on any arguments
SpecRoute == Init /\ [][RouteNext]_vars

\* upload requests against a ledger that holds some balance for one address
SpecUpload == InitDebits /\ [][UploadNext]_vars

\* the SynapseService of one server process, from its construction on
SpecConn == Init /\ [][ConnNext]_vars

\* the session manager before any request: initialize() and the heartbeat
ConnectNext ==
    \/ \E sdk \in {"with_destroy", "without_destroy"} : Construct(sdk)
    \/ initialize
    \/ \E t \in TaskIds : Resume(t)
    \/ \E ok \in BOOLEAN : CreateSettles(ok)
    \/ SleepEnds
    \/ DestroySettles
    \/ \E getNetworkThrows \in BOOLEAN : TimerFires(getNetworkThrows)
    \/ ClockTick

\* the same, where the event loop runs every continuation, every timer fires
\* and Synapse.create settles
SpecConnectFair ==
    /\ Init /\ [][ConnectNext]_vars
    /\ WF_vars(initialize)
    /\ WF_vars(\E t \in TaskIds : Resume(t))
    /\ WF_vars(\E ok \in BOOLEAN : CreateSettles(ok))
    /\ WF_vars(SleepEnds)

\* the session manager serving two requests at a time, next to its heartbeats
\* and forced refreshes
PairOfCallers == {<<"caller", 1>>, <<"caller", 2>>}

ConnNextPair ==
    \/ \E sdk \in {"with_destroy", "without_destroy"} : Construct(sdk)
    \/ initialize
    \/ \E c \in PairOfCallers : withConnection(c)
    \/ \E t \in TaskIds : Resume(t)
    \/ \E ok \in BOOLEAN : CreateSettles(ok)
    \/ SleepEnds
    \/ DestroySettles
    \/ \E c \in PairOfCallers, ok \in BOOLEAN : FnSettles(c, ok)
    \/ \E getNetworkThrows \in BOOLEAN : TimerFires(getNetworkThrows)
    \/ ClockTick

\* the same, where the event loop runs every continuation and every pending
\* call of the SDK (create, destroy, the operation) and every sleep settles
SpecConnFair ==
    /\ Init /\ [][ConnNextPair]_vars
    /\ WF_vars(\E t \in TaskIds : Resume(t))
    /\ WF_vars(\E ok \in BOOLEAN : CreateSettles(ok))
    /\ WF_vars(SleepEnds)
    /\ WF_vars(DestroySettles)
    /\ WF_vars(\E c \in PairOfCallers, ok \in BOOLEAN : FnSettles(c, ok))

\* the session manager serving requests one after another as well as together
ConnNextRequests ==
    \/ ConnNext
    \/ \E c \in Callers : NextRequest(c)

SpecConnRequests == Init /\ [][ConnNextRequests]_vars

\* the two POST routes taking any body
SpecBodies == Init /\ [][BodiesNext]_vars

\* fundCredits calls of the SDK against the backend
SpecFund == Init /\ [][FundNext]_vars

\* one waitForExecution call against a source that changes at any time
SpecPoll == Init /\ [][PollNext]_vars

\* swap invocations, each against a router whose call may fail
SpecSwap == Init /\ [][SwapNext]_vars

\* the same, where a call that has started keeps being scheduled (the event loop
\* runs every continuation and fires every timer)
SpecPollFair == SpecPoll /\ WF_vars(PollStep)

----------------------------------------------------------------------------
(* Ledger properties *)

RECURSIVE SumAmounts(_, _, _)
SumAmounts(txs, userAddress, type) ==
    IF Len(txs) = 0 THEN 0
    ELSE LET tx == txs[Len(txs)]
             rest == SumAmounts(SubSeq(txs, 1, Len(txs) - 1), userAddress, type)
         IN  IF tx.user_address = userAddress /\ tx.type = type
             THEN rest + BigInt(tx.amount)
             ELSE rest

Deposits(a) == SumAmounts(transactions, a, "deposit")
Deducts(a) == SumAmounts(transactions, a, "deduct")

RecordsOf(a, type) ==
    {i \in 1..Len(transactions) :
        transactions[i].user_address = a /\ transactions[i].type = type}

RECURSIVE SumOps(_, _, _)
SumOps(S, a, kind) ==
    IF S = {} THEN 0
    ELSE LET p == CHOOSE q \in S : TRUE
         IN  SumOps(S \ {p}, a, kind) +
             (IF ops[p].kind = kind /\ ops[p].userAddress = a /\ ops[p].outcome = "ok"
              THEN ops[p].amount ELSE 0)

\* C1: in every reachable state, under any interleaving of credits (amount > 0)
\* and debits (cost > 0), the stored balance of every account is >= 0.
C1_BalanceNeverNegative == \A a \in Addresses : getBalance(a) >= 0

\* a debit has brought a funded account down to zero while another call is in flight
C1_Witness ==
    \E a \in Addresses :
        /\ credits[a].present
        /\ getBalance(a) = 0
        /\ RecordsOf(a, "deduct") # {}
        /\ ~NoOpInFlight

\* C2: N concurrent debits of amount X against one address holding B succeed
\* exactly floor(B/X) times; the final balance is B - floor(B/X)*X and exactly
\* floor(B/X) deduct records are written.
C2_DebitAtomicity ==
    (\A p \in Slots : ops[p].pc = "done") =>
        LET B == Deposits(DebitAddress)
            X == ops[1].amount
            succeeded == {p \in Slots : ops[p].outcome = "ok"}
        IN  /\ Cardinality(succeeded) = B \div X
            /\ getBalance(DebitAddress) = B - (B \div X) * X
            /\ Cardinality(RecordsOf(DebitAddress, "deduct")) = B \div X

\* C3: when credits and debits on an address run one after another, after each
\* operation the balance equals the sum of the deposit records minus the sum of
\* the deduct records, and a debit whose cost exceeds the balance is rejected
\* with the balance left as it was.
C3_SequentialConservation ==
    /\ [](NoOpInFlight => \A a \in Addresses : getBalance(a) = Deposits(a) - Deducts(a))
    /\ [][\A p \in Slots :
            (/\ ops[p].pc = "deduct_getBalance"
             /\ ops'[p].pc # "deduct_getBalance"
             /\ getBalance(ops[p].userAddress) < ops[p].amount)
            => (ops'[p].outcome = "insufficient" /\ ops'[p].pc = "done" /\ credits' = credits)]_vars

\* sequentially: a deposit, a debit that went through and a debit that was rejected
C3_Witness ==
    /\ NoOpInFlight
    /\ \E p, q, r \in Slots :
          /\ ops[p].kind = "deposit" /\ ops[p].outcome = "ok"
          /\ ops[q].kind = "deduct" /\ ops[q].outcome = "ok"
          /\ ops[r].kind = "deduct" /\ ops[r].outcome = "insufficient"
          /\ ops[p].userAddress = ops[q].userAddress
          /\ ops[p].userAddress = ops[r].userAddress
          /\ getBalance(ops[r].userAddress) > 0

\* C4: credits and debits on one address are totally ordered: when concurrently
\* running calls have all settled, the balance is the one a sequential run of the
\* same calls leaves (credits that succeeded minus debits that succeeded), so no
\* call's balance write was overwritten by a call that read before it.
C4_NoLostUpdate ==
    NoOpInFlight =>
        \A a \in Addresses :
            getBalance(a) = SumOps(Slots, a, "deposit") - SumOps(Slots, a, "deduct")

\* C5: in every reachable state, also between the awaited steps of a call, the
\* deposit records minus the deduct records of an address equal its stored balance.
C5_RecordsMatchBalanceAlways ==
    \A a \in Addresses : Deposits(a) - Deducts(a) = getBalance(a)

\* C6: a debit whose cost exceeds the balance read returns the failure value
\* (it does not throw) with currentBalance = the balance read and requiredAmount =
\* the cost; the step changes no balance and writes no record, and no record
\* ever carries the rejected request's file id.
C6_InsufficientFundsResult ==
    /\ [][\A p \in Slots :
            (/\ ops[p].pc = "deduct_getBalance"
             /\ ops'[p].pc # "deduct_getBalance"
             /\ getBalance(ops[p].userAddress) < ops[p].amount)
            => (/\ ops'[p].pc = "done"
                /\ ops'[p].outcome = "insufficient"
                /\ ops'[p].reportedBalance = getBalance(ops[p].userAddress)
                /\ ops'[p].requiredAmount = ops[p].amount
                /\ credits' = credits
                /\ transactions' = transactions)]_vars
    /\ [](\A p \in Slots :
            ops[p].outcome = "insufficient" =>
                \A i \in 1..Len(transactions) : transactions[i].file_id # FileIdOf(p))

\* a debit was rejected against a balance that is positive but too small
C6_Witness ==
    \E p \in Slots :
        /\ ops[p].outcome = "insufficient"
        /\ ops[p].reportedBalance > 0
        /\ ops[p].reportedBalance < ops[p].requiredAmount
        /\ getBalance(ops[p].userAddress) = ops[p].reportedBalance

\* the records of one address, in the order written
RecordsSeq(a) == SelectSeq(transactions, LAMBDA tx : tx.user_address = a)

\* C18: a step of a credit or debit on one address leaves the balance row and
\* the records of every other address as they were; and with calls on other
\* addresses running concurrently, a debit is refused exactly when the
\* address's own records leave less than the cost, and once no call on the
\* address is in flight its balance is its own deposits less its own deducts.
C18_AddressesIndependent ==
    /\ [](\A a \in Addresses :
             NoOpInFlightOn(a) => getBalance(a) = Deposits(a) - Deducts(a))
    /\ [][\A p \in Slots :
            ops'[p] # ops[p] =>
                /\ \A b \in Addresses \ {ops'[p].userAddress} :
                      credits'[b] = credits[b] /\ RecordsSeq(b)' = RecordsSeq(b)
                /\ ops[p].pc = "deduct_getBalance" =>
                      LET own == Deposits(ops[p].userAddress) - Deducts(ops[p].userAddress)
                      IN  IF own < ops[p].amount
                          THEN /\ ops'[p].outcome = "insufficient"
                               /\ ops'[p].reportedBalance = own
                          ELSE /\ ops'[p].pc = "deduct_update"
                               /\ ops'[p].newBalance = own - ops[p].amount]_vars

\* a debit on one address and a credit on the other have both written their
\* balance and not yet their record
C18_Witness ==
    \E p, q \in Slots :
        /\ ops[p].userAddress # ops[q].userAddress
        /\ ops[p].pc = "deduct_log"
        /\ ops[q].pc = "add_log"

\* the call in slot p settles successfully in this step
CompletesOk(p) == ops[p].pc # "done" /\ ops'[p].pc = "done" /\ ops'[p].outcome = "ok"

\* C31: every credit or debit that completes successfully writes exactly one
\* record (deposit for a credit, deduct for a debit, the operation's amount, the
\* settlement id resp. the file id); no step changes or removes a record that
\* exists, and records are written by nothing but a completing credit or debit.
C31_OneRecordPerOperation ==
    /\ [](Len(transactions) = Cardinality({p \in Slots : ops[p].outcome = "ok"}))
    /\ [][/\ Len(transactions') >= Len(transactions)
          /\ \A i \in 1..Len(transactions) : transactions'[i] = transactions[i]
          /\ transactions' # transactions => \E p \in Slots : CompletesOk(p)
          /\ \A p \in Slots :
                CompletesOk(p) =>
                    /\ Len(transactions') = Len(transactions) + 1
                    /\ LET tx == transactions'[Len(transactions')]
                       IN  /\ tx.user_address = ops[p].userAddress
                           /\ tx.type = ops[p].kind
                           /\ tx.amount = toString(ops[p].amount)
                           /\ IF ops[p].kind = "deposit"
                              THEN tx.bridge_request_id = ops[p].bridgeRequestId
                              ELSE tx.file_id = ops[p].fileId]_vars

\* a credit and two debits on one address have completed, the second debit
\* after the first one's record was written
C31_Witness ==
    /\ Len(transactions) = 3
    /\ transactions[1].type = "deposit"
    /\ transactions[2].type = "deduct"
    /\ transactions[3].type = "deduct"
    /\ transactions[2].user_address = transactions[3].user_address
    /\ transactions[2].file_id # transactions[3].file_id
    /\ \A p \in Slots : ops[p].outcome = "ok"

\* C32: every record written has an amount > 0: whatever body the funding and
\* upload routes accept, the amount credited and the cost debited are strictly
\* positive, so a call that has read the balance writes a larger one when it is
\* a credit and a smaller one when it is a debit.
C32_AmountsPositive ==
    /\ \A i \in 1..Len(transactions) : BigInt(transactions[i].amount) > 0
    /\ \A p \in Slots :
          /\ ops[p].pc \in {"add_getUserCredit", "add_write"} =>
                ops[p].newBalance > ops[p].currentBalance
          /\ ops[p].pc = "deduct_update" => ops[p].newBalance < ops[p].currentBalance

\* C37: a credit or debit in which a store write fails reports failure and has
\* changed neither the balance nor the records of its address: the balance is
\* the one the call read, and the call has written no record.
C37_AllOrNothing ==
    /\ [](Len(transactions) = Cardinality({p \in Slots : ops[p].outcome = "ok"}))
    /\ [][\A p \in Slots :
            (ops[p].pc # "done" /\ ops'[p].pc = "done" /\ ops'[p].outcome = "threw")
            => (/\ getBalance(ops[p].userAddress)' = ops[p].currentBalance
                /\ RecordsSeq(ops[p].userAddress)' = RecordsSeq(ops[p].userAddress))]_vars

----------------------------------------------------------------------------
(* Funding flow properties *)

\* the wait for this request has resolved successfully
SettledRequest(requestId) == poll.pc = "resolved" /\ poll.requestId = requestId

\* C7: in the funding flow a credit is issued only after a settlement intent was
\* submitted and the wait for its requestId has resolved successfully: every
\* deposit record carries the id of a request whose wait resolved.
C7_CreditOnlyAfterSettlement ==
    \A i \in 1..Len(transactions) :
        transactions[i].type = "deposit" =>
            SettledRequest(transactions[i].bridge_request_id)

----------------------------------------------------------------------------
(* Settlement poll properties *)

Finished == poll.pc \in {"resolved", "failed"}

\* C8 as amended: the wait resolves on the first successful status check made by
\* the immediate initial check or by a poll tick in which executed or fulfilled is
\* true, and returns the values of that check; the final status fetch made after
\* the deadline does not resolve it.
C8_ResolvesOnEitherSignal ==
    LET check == pollLog.lastCheck
    IN  (/\ check.kind \in {"initial", "tick"}
         /\ check.ok
         /\ (check.executed \/ check.fulfilled))
        => (/\ poll.pc = "resolved"
            /\ poll.result = "resolved"
            /\ poll.executed = check.executed
            /\ poll.fulfilled = check.fulfilled)

\* resolved by the very first check, before any sleep, on fulfilled alone
C8_Witness ==
    /\ poll.pc = "resolved"
    /\ ~poll.executed
    /\ poll.fulfilled
    /\ poll.receipt = "primary"
    /\ ~source.executed
    /\ pollLog.checks = 1
    /\ pollLog.sleeps = 0

\* C8 as stated: every successful status check in which executed or fulfilled is
\* true resolves the wait.
C8_AnyCheckResolves ==
    LET check == pollLog.lastCheck
    IN  (check.ok /\ (check.executed \/ check.fulfilled)) => poll.pc = "resolved"

\* the time between the call and now
SinceCall == now - poll.startTime

\* C9 as amended: with a source that never reports executed or fulfilled and whose
\* fetches all succeed, no tick starts after the deadline, the wait ends, and it
\* ends with the timeout error no later than timeout + one interval plus the time
\* the last tick's fetches, the timer and the final fetch took beyond that.
C9_TimeoutBound ==
    /\ [](poll.pc = "tick" => poll.elapsed <= poll.timeoutMs)
    /\ []((Finished /\ ~pollLog.reported /\ ~pollLog.fetchFailed) =>
            (/\ poll.pc = "failed"
             /\ poll.error = "timeout"
             /\ SinceCall <= poll.timeoutMs + poll.intervalMs + pollLog.tailDelay))
    /\ (poll.pc # "idle") ~> Finished

\* timeout 200, interval 50, nothing ever reported, no delay: failed at 250
C9_Witness ==
    /\ poll.pc = "failed"
    /\ poll.error = "timeout"
    /\ ~pollLog.reported
    /\ ~pollLog.fetchFailed
    /\ poll.timeoutMs = 200
    /\ poll.intervalMs = 50
    /\ SinceCall = 250
    /\ pollLog.tailDelay = 0

\* C9 as stated: with a source that never reports executed or fulfilled the wait
\* fails with the timeout error no later than timeout + one interval after the call.
C9_FailsWithinTimeoutPlusInterval ==
    (Finished /\ ~pollLog.reported /\ ~pollLog.fetchFailed) =>
        (/\ poll.pc = "failed"
         /\ poll.error = "timeout"
         /\ SinceCall <= poll.timeoutMs + poll.intervalMs)

\* C20: once the loop has seen elapsed > timeout, the call makes one more status
\* fetch and then fails with the timeout error, whatever that fetch returns or
\* throws: never a result, and never the fetch's own error.
C20_AlwaysTimeoutError ==
    [][(poll.pc = "final" /\ poll' # poll) =>
          /\ poll'.pc = "failed"
          /\ poll'.result = "threw"
          /\ poll'.error = "timeout"
          /\ pollLog'.checks = pollLog.checks + 1
          /\ pollLog'.lastCheck.kind = "final"]_vars

\* a tick whose primary status fetch rejected has just settled
TickFetchFailed ==
    /\ poll.pc = "tick"
    /\ poll' # poll
    /\ pollLog'.lastCheck.kind = "tick"
    /\ ~pollLog'.lastCheck.ok

C22_SecondaryEveryTick ==
    [][(poll.pc = "tick" /\ poll' # poll /\ poll.dest) =>
          /\ pollLog'.lastCheck.dest # "none"
          /\ (pollLog'.lastCheck.dest = "ok" /\ source.destFulfilled) =>
                /\ poll'.pc = "resolved"
                /\ poll'.fulfilled
                /\ poll'.receipt = "destination"]_vars

\* C23: the first status check is made at once, before any sleep; when its
\* fetches succeed and the intent is already executed or fulfilled the call
\* resolves then, having slept for no interval; when the check fails the call does
\* not fail but goes on to poll.
C23_ImmediateFirstCheck ==
    [][(poll.pc = "initial" /\ poll' # poll) =>
          /\ pollLog.checks = 0 /\ pollLog.sleeps = 0
          /\ pollLog'.lastCheck.kind = "initial"
          /\ pollLog'.sleeps = 0
          /\ (/\ pollLog'.lastCheck.ok
              /\ ResolvedBy(source.executed, source.fulfilled)) =>
                /\ poll'.pc = "resolved"
                /\ poll'.result = "resolved"
                /\ now' - poll.startTime <= MaxLatency
          /\ pollLog'.lastCheck.destFulfilled => poll'.pc = "resolved"
          /\ poll'.pc # "failed"
          /\ pollLog'.fetchFailed => poll'.pc = "loop"]_vars

\* the intent was fulfilled before the call: resolved by the first check, no sleep
C23_Witness ==
    /\ poll.pc = "resolved"
    /\ pollLog.lastCheck.kind = "initial"
    /\ pollLog.checks = 1
    /\ pollLog.sleeps = 0
    /\ poll.fulfilled

\* C24: one call has at most one round of fetches outstanding: a tick starts only
\* from the top of the loop, when the initial check and every earlier tick have
\* settled and each earlier tick was followed by one sleep of at least an
\* interval; a tick ends in a result, an error or a sleep; and once the loop has
\* seen elapsed > timeout it makes the final fetch and fails, starting no tick.
C24_OneTickAtATime ==
    /\ [](poll.pc = "tick" =>
            /\ pollLog.checks = pollLog.sleeps + 1
            /\ poll.elapsed >= pollLog.sleeps * poll.intervalMs
            /\ poll.elapsed <= poll.timeoutMs)
    /\ [](poll.pc = "final" => poll.elapsed > poll.timeoutMs)
    /\ [][/\ (poll'.pc = "tick" /\ poll' # poll) => poll.pc = "loop"
          /\ (poll.pc = "tick" /\ poll' # poll) =>
                /\ poll'.pc \in {"resolved", "failed", "sleep"}
                /\ pollLog'.checks = pollLog.checks + 1
          /\ (poll.pc = "sleep" /\ poll' # poll) =>
                poll'.pc = "loop" /\ pollLog'.checks = pollLog.checks
          /\ (poll.pc = "final" /\ poll' # poll) => poll'.pc = "failed"
          /\ poll.pc \in {"resolved", "failed"} =>
                poll' = poll /\ pollLog' = pollLog]_vars

\* after two ticks and two sleeps the loop sees the deadline passed
C24_Witness ==
    /\ poll.pc = "final"
    /\ pollLog.sleeps >= 2
    /\ pollLog.checks = pollLog.sleeps + 1

\* C25: with onProgress supplied, every tick of the loop, the one that finds
\* the deadline passed included, calls it once when its status fetches have
\* settled, with the tick's elapsed time and the executed and fulfilled values
\* just fetched.
C25_ProgressEveryTick ==
    [][(poll.pc \in {"tick", "final"} /\ poll' # poll /\ poll.onProgress) =>
          /\ pollLog'.progressCalls = pollLog.progressCalls + 1
          /\ pollLog'.lastCheck.ok =>
                pollLog'.progress = [elapsed |-> poll.elapsed,
                                     fulfilled |-> source.fulfilled,
                                     executed |-> source.executed]]_vars

\* C33: whenever the wait returns successfully, the returned pair has
\* params.executed or fulfillment.fulfilled true (the values of the round of
\* fetches that resolved it, the fulfillment being the destination router's
\* receipt when that is what resolved it); the wait never returns a pair in
\* which both are false, and a wait that failed returned no pair.
C33_ReturnedPairHasASignal ==
    /\ poll.result = "resolved" =>
          /\ poll.pc = "resolved"
          /\ poll.executed \/ poll.fulfilled
          /\ poll.executed = pollLog.lastCheck.executed
          /\ poll.fulfilled = IF poll.receipt = "destination"
                              THEN pollLog.lastCheck.destFulfilled
                              ELSE pollLog.lastCheck.fulfilled
    /\ poll.pc = "failed" => poll.result = "threw" /\ ~poll.executed /\ ~poll.fulfilled

\* the wait returned on the destination router's receipt alone, after sleeping:
\* the primary fetches of that tick reported neither signal
C33_Witness ==
    /\ poll.result = "resolved"
    /\ poll.receipt = "destination"
    /\ ~poll.executed
    /\ poll.fulfilled
    /\ ~pollLog.lastCheck.executed
    /\ ~pollLog.lastCheck.fulfilled
    /\ pollLog.lastCheck.kind = "tick"
    /\ pollLog.sleeps >= 1

\* the source router reports executed or fulfilled (and goes on doing so)
SignalRaised == source.executed \/ source.fulfilled

\* C34: if executed or fulfilled is true no later than timeout - interval after
\* the call (and stays true) and every status fetch succeeds, the wait resolves
\* successfully; it does not fail with the timeout error.
C34_ResolvesWhenSignalledInTime ==
    (/\ poll.pc \notin {"idle", "resolved", "failed"}
     /\ SignalRaised
     /\ SinceCall <= poll.timeoutMs - poll.intervalMs)
        ~> (poll.pc = "resolved" \/ pollLog.fetchFailed)

----------------------------------------------------------------------------
(* Session manager properties *)

\* C10: withConnection invokes the operation at most twice; a second invocation
\* follows a first that threw and is made after the session was torn down and
\* re-established, so on another session than the first; when the second
\* succeeds the caller receives the success, and when it throws too the caller
\* receives the second error.
C10_TwoStrikeRetry ==
    \A c \in Callers :
        LET tk == tasks[c]
        IN  /\ Len(tk.calls) <= 2
            /\ Len(tk.calls) = 2 =>
                  /\ tk.calls[1].outcome = "threw"
                  /\ tk.calls[2].session # tk.calls[1].session
                  /\ tk.pc = "done" /\ tk.calls[2].outcome = "ok" =>
                        tk.result = "returned"
                  /\ tk.pc = "done" /\ tk.calls[2].outcome = "threw" =>
                        tk.result = "threw" /\ tk.error = "operation"
                        /\ tk.thrownBy = 2

\* C11: at most one createSynapse call and at most one teardown (destroy) is in
\* flight at any time; a pending connect has one creator, everyone else who
\* found no session waits on it, and all of them receive the same session.
C11_SingleFlight ==
    /\ env.connect.inFlight <= 1
    /\ Cardinality(env.destroying) <= 1
    /\ Cardinality({t \in TaskIds : tasks[t].wait = "connect" /\ tasks[t].own}) <= 1
    /\ Cardinality({t \in TaskIds : tasks[t].wait = "reset" /\ tasks[t].own}) <= 1
    /\ \A t \in TaskIds :
          tasks[t].wait = "connect" /\ tasks[t].got = "none" =>
              mgr.connectPromise = "pending" /\ env.connect.inFlight = 1
    /\ \A t, u \in TaskIds :
          /\ tasks[t].wait = "connect" /\ tasks[t].got = "ok"
          /\ tasks[u].wait = "connect" /\ tasks[u].got = "ok"
          => tasks[t].val = tasks[u].val /\ tasks[t].val # 0

\* two callers have received the session of one connect, one of them its
\* creator and the other one having waited on it, while a teardown is shared
C11_Witness ==
    \E c, d \in Callers :
        /\ tasks[c].wait = "connect" /\ tasks[c].own /\ tasks[c].got = "ok"
        /\ tasks[d].wait = "connect" /\ ~tasks[d].own /\ tasks[d].got = "ok"
        /\ tasks[c].val = tasks[d].val
        /\ mgr.reconnectCount > 0

\* caller c starts fn(synapse) in this step
StartsOperation(c) == Len(tasks'[c].calls) > Len(tasks[c].calls)

\* C26: no operation is started on the held session once it has been open for the
\* forced-refresh ceiling: a withConnection call that finds the session that old
\* has it replaced before fn runs.
C26_NoOperationOnStaleSession ==
    [][\A c \in Callers :
          StartsOperation(c) =>
              LET call == tasks'[c].calls[Len(tasks'[c].calls)]
              IN  call.session = mgr.synapse =>
                      /\ mgr.lastReconnect # Null
                      /\ env.clock - mgr.lastReconnect < ForcedReconnectInterval]_vars

\* the state of the session, read off the manager's fields
SessionState ==
    IF mgr.synapse # 0 THEN "Connected"
    ELSE IF mgr.connectPromise # "null" THEN "Connecting"
    ELSE "Disconnected"

\* this step is a resetConnection() that started a reset, called from the catch
\* of performHeartbeat, from the body of a due forced refresh, or from the catch
\* of withConnection after fn threw
ResetCause ==
    \E t \in TaskIds :
        /\ tasks'[t].wait = "reset" /\ tasks'[t].own
        /\ ~(tasks[t].wait = "reset" /\ tasks[t].own)
        /\ \/ /\ tasks'[t].pc = "performHeartbeat_reset"
              /\ mgr'.lastError \in {"heartbeat", "connect"}
           \/ /\ tasks'[t].pc = "refresh_reset"
              /\ mgr.lastReconnect # Null
              /\ env.clock - mgr.lastReconnect >= ForcedReconnectInterval
           \/ /\ tasks'[t].pc = "execute_reset"
              /\ tasks[t].wait = "fn"

\* a session is installed only by the completion of the pending connect, when no
\* session is held, and it is the session that connect created
EntersConnected ==
    mgr'.synapse # mgr.synapse /\ mgr'.synapse # 0 =>
        /\ mgr.synapse = 0
        /\ mgr.connectPromise = "fulfilled"
        /\ mgr'.synapse = mgr.connectValue
        /\ mgr'.synapse = env.nextSession - 1

HeartbeatFailed ==
    /\ mgr.synapse # 0
    /\ \E b \in Beats :
          /\ tasks[b].pc = "idle"
          /\ tasks'[b].pc = "performHeartbeat_reset"
          /\ mgr'.lastError = "heartbeat"

\* while a session is held its interval timer is set, due a whole number of
\* heartbeat intervals after the session was installed and no later than one
\* interval from now
HeartbeatScheduled ==
    mgr.synapse # 0 =>
        \E x \in env.timers :
            /\ x.id = mgr.heartbeatTimer
            /\ x.due > mgr.lastReconnect
            /\ (x.due - mgr.lastReconnect) % HeartbeatInterval = 0
            /\ x.due <= env.clock + HeartbeatInterval

\* C28: while a session is held a heartbeat is due every 45 s whatever the
\* requests do, and a heartbeat whose liveness check fails tears the session down
\* there and then, with no request involved, so that the next withConnection call
\* has to establish a new session before its operation runs.
C28_HeartbeatTearsDown ==
    /\ []HeartbeatScheduled
    /\ [][HeartbeatFailed =>
             /\ mgr'.synapse = 0
             /\ mgr'.heartbeatTimer = 0
             /\ env'.timers = {}]_vars

\* the pending connect settles in this step
ConnectSettlesAs(outcome) ==
    mgr.connectPromise = "pending" /\ mgr'.connectPromise = outcome

OperationsOn(tk, s) ==
    {c \in Callers :
        /\ tk[c].wait = "fn"
        /\ tk[c].calls[Len(tk[c].calls)].session = s}

\* C35: a session is never torn down (by a forced refresh, by a heartbeat, or by
\* the reset that follows another caller's failed operation) while an operation
\* started through withConnection is still running against it.
C35_NoTeardownUnderOperation ==
    [][(mgr.synapse # 0 /\ mgr'.synapse = 0) =>
          OperationsOn(tasks', mgr.synapse) = {}]_vars

\* C36: the reset that follows an operation failure tears down only the session
\* the failed operation ran on: when a newer session has replaced it by the time
\* the operation fails, the newer session is kept and reconnectCount is not
\* incremented.
C36_LateFailureSparesNewerSession ==
    [][\A c \in Callers :
          (/\ tasks[c].wait = "fn"
           /\ tasks'[c].pc = "execute_reset"
           /\ mgr.synapse # 0
           /\ tasks[c].calls[Len(tasks[c].calls)].session # mgr.synapse)
          => (/\ mgr'.synapse = mgr.synapse
              /\ mgr'.reconnectCount = mgr.reconnectCount)]_vars

\* C39: at every await point the heartbeat timer is active exactly when a
\* session is held, lastReconnect is non-null exactly when a session is held,
\* and at most one heartbeat timer exists (the one the manager's field names).
C39_TimerIffSession ==
    /\ mgr.synapse # 0 <=> mgr.heartbeatTimer # 0
    /\ mgr.synapse # 0 <=> mgr.lastReconnect # Null
    /\ Cardinality(env.timers) <= 1
    /\ \A x \in env.timers : x.id = mgr.heartbeatTimer
    /\ mgr.heartbeatTimer # 0 => \E x \in env.timers : x.id = mgr.heartbeatTimer

\* a second session is held, with its timer, after the first was reset, while
\* a caller's operation is running and the reset of the first is still in flight
C39_Witness ==
    /\ mgr.synapse = 2
    /\ mgr.heartbeatTimer # 0
    /\ Cardinality(env.timers) = 1
    /\ mgr.reconnectCount >= 1
    /\ mgr.resetPromise = "pending"
    /\ \E c \in Callers : tasks[c].wait = "fn"

\* a guard whose promise has settled and that is still set
SettledGuard(promise) == promise \in {"fulfilled", "rejected"}

\* withConnection call c settles in this step
CallSettles(c) == tasks[c].pc # "done" /\ tasks'[c].pc = "done"

----------------------------------------------------------------------------
(* Upload flow properties *)

\* the debit of request p has been performed: its deduct record is written
Debited(p) ==
    /\ ops[p].pc = "done" /\ ops[p].outcome = "ok"
    /\ \E i \in 1..Len(transactions) :
          /\ transactions[i].type = "deduct"
          /\ transactions[i].file_id = FileIdOf(p)
          /\ transactions[i].user_address = ops[p].userAddress
          /\ BigInt(transactions[i].amount) = ops[p].amount

StorageWrites(p) == {i \in 1..Len(storage) : storage[i].fileId = FileIdOf(p)}

\* C12: an upload record or a storage write of a request exists only once the
\* request's debit has been performed; a request whose debit is refused for
\* insufficient funds gets no upload record and no storage write, and what it
\* is answered is the 402 response carrying the balance read and the cost
C12_DebitBeforeUpload ==
    \A p \in Slots :
        /\ (userFiles[FileIdOf(p)].present \/ StorageWrites(p) # {}) => Debited(p)
        /\ ops[p].outcome = "insufficient" =>
              /\ ~userFiles[FileIdOf(p)].present
              /\ StorageWrites(p) = {}
              /\ requests[p].pc \in {"deductCredits", "responded"}
              /\ requests[p].pc = "responded" =>
                    /\ requests[p].status = 402
                    /\ BigInt(requests[p].currentBalance) = ops[p].reportedBalance
                    /\ BigInt(requests[p].requiredAmount) = ops[p].amount
                    /\ ops[p].reportedBalance < ops[p].amount

\* one request was refused and answered, another was debited and wrote to storage
C12_Witness ==
    \E p, q \in Slots :
        /\ ops[p].outcome = "insufficient" /\ requests[p].pc = "responded"
        /\ Debited(q) /\ userFiles[FileIdOf(q)].present /\ StorageWrites(q) # {}

\* the storage write of request p has failed
StorageWriteFailed(p) == \E i \in StorageWrites(p) : storage[i].state = "failed"

\* C13: the step in which the storage write of a debited request fails answers
\* the request 500 and writes nothing to the ledger (the balance is left as the
\* debit made it); from then on no deposit record is added for the failure, the
\* request's deduct record stays, and its upload record stays with a null
\* content address
C13_NoCompensation ==
    [][\A p \in Uploads :
          StorageWriteFailed(p)' =>
              /\ requests'[p].pc = "responded" /\ requests'[p].status = 500
              /\ ~StorageWriteFailed(p) =>
                    credits' = credits /\ transactions' = transactions
              /\ RecordsOf(ops[p].userAddress, "deposit")' =
                    RecordsOf(ops[p].userAddress, "deposit")
              /\ Debited(p)'
              /\ userFiles'[FileIdOf(p)].present
              /\ userFiles'[FileIdOf(p)].commp = "null"
              /\ userFiles'[FileIdOf(p)].uploaded_at = Null]_vars

\* the only request made was debited, its storage write failed, and the balance
\* is the funded amount less the cost
C13_Witness ==
    /\ StorageWriteFailed(1) /\ requests[1].status = 500
    /\ ops[2].pc = "idle"
    /\ Len(transactions) = 2
    /\ transactions[1].type = "deposit" /\ transactions[2].type = "deduct"
    /\ getBalance(ops[1].userAddress) =
          BigInt(transactions[1].amount) - BigInt(transactions[2].amount)
    /\ userFiles[FileIdOf(1)].present /\ userFiles[FileIdOf(1)].commp = "null"

\* C16: a file record appears with a null content address and the cost of its
\* request; a record that exists stays, its cost never changes, and a content
\* address that is set is never null again
C16_RecordMonotone ==
    [][\A p \in Slots :
          LET old == userFiles[FileIdOf(p)]
              new == userFiles'[FileIdOf(p)]
          IN  /\ (~old.present /\ new.present) =>
                    /\ new.commp = "null"
                    /\ BigInt(new.storage_cost) = ops[p].amount
              /\ old.present =>
                    /\ new.present
                    /\ new.storage_cost = old.storage_cost
                    /\ old.commp # "null" => new.commp # "null"]_vars

\* a request has completed: its record carries a content address and the cost
\* that was debited, while the record of a later request is still pending
C16_Witness ==
    \E p, q \in Uploads :
        /\ requests[p].status = 200
        /\ userFiles[FileIdOf(p)].commp \in PieceCids
        /\ BigInt(userFiles[FileIdOf(p)].storage_cost) = ops[p].amount
        /\ userFiles[FileIdOf(q)].present /\ userFiles[FileIdOf(q)].commp = "null"

\* the deduct records that carry the file id of request p
DeductRecordsOf(p) ==
    {i \in 1..Len(transactions) :
        transactions[i].type = "deduct" /\ transactions[i].file_id = FileIdOf(p)}

----------------------------------------------------------------------------
(* Read properties *)

\* the history response of this step, when the step is a history read
HistoryRead == reads' # reads /\ reads'.last.kind = "history"

C17_ReadsArePure ==
    [][reads'.last # reads.last =>
          LET r == reads'.last
          IN  /\ UNCHANGED <<credits, transactions, userFiles>>
              /\ \A a \in Addresses :
                    (r.kind = "getBalance" /\ r.address = a) =>
                        /\ BigInt(r.balance) = getBalance(a)'
                        /\ ~credits[a].present =>
                              BigInt(r.balance) = 0 /\ ~credits'[a].present
              /\ \A a \in Addresses, limit \in Limits :
                    (r.kind = "history" /\ r.address = a /\ r.limit = limit) =>
                        r.transactions =
                            getCreditTransactions(a, limit, reads.ties)']_vars

\* the balance of an account without a row was read while a credit to another
\* account was between its balance write and its record
C17_Witness ==
    /\ reads.last.kind = "getBalance"
    /\ ~credits[reads.last.address].present
    /\ BigInt(reads.last.balance) = 0
    /\ \E p \in Writers : ops[p].pc = "add_log"

----------------------------------------------------------------------------
(* Route discovery properties *)

\* C19: resolveTokenMapping returns a token address pair exactly when
\* isRouteSupported is true for the same arguments and throws
\* UnsupportedRouteError otherwise; a pair it returns is that of a route that
\* listSupportedPairs lists.
C19_MappingIffSupported ==
    route.fn = "resolveTokenMapping" =>
        /\ (route.result.threw = "none") <=> isRouteSupported(route.args)
        /\ route.result.threw \in {"none", "UnsupportedRouteError"}
        /\ route.result.threw = "none" =>
              \E k \in 1..Len(listSupportedPairs(route.args.env)) :
                  LET p == listSupportedPairs(route.args.env)[k]
                  IN  /\ Matches(p, route.args)
                      /\ p.srcTokenAddress = route.result.srcTokenAddress
                      /\ p.dstTokenAddress = route.result.dstTokenAddress

----------------------------------------------------------------------------
(* Swap properties *)

\* C30: one invocation of swap makes exactly one router swap call; when that call
\* fails the invocation throws the router's error and calls the router no more,
\* so an invocation never registers more than one intent.
C30_OneRouterCall ==
    /\ [](\A p \in SwapCalls :
            /\ swaps[p].routerCalls = IF swaps[p].pc = "idle" THEN 0 ELSE 1
            /\ swaps[p].intents <= 1
            /\ swaps[p].result = "threw" =>
                  swaps[p].pc = "done" /\ swaps[p].error = "router.swap"
            /\ swaps[p].result = "returned" => swaps[p].intents = 1)
    /\ [][\A p \in SwapCalls : swaps[p].pc = "done" => swaps'[p] = swaps[p]]_vars

\* an invocation whose router call failed after the request was registered
C30_Witness ==
    \E p \in SwapCalls :
        /\ swaps[p].pc = "done"
        /\ swaps[p].result = "threw"
        /\ swaps[p].routerCalls = 1
        /\ swaps[p].intents = 1

====
